---------------------------- MODULE Spec2Model ----------------------------
(***************************************************************************)
(* A model of the flatmap viewer.                                          *)
(* PropertiesFilter (src/layers/filter.js): a boolean predicate over       *)
(* property dictionaries that is evaluated in application code (match) and *)
(* compiled to the renderer's style filter grammar (makeStyleFilter).      *)
(* FlatMap: the indices from external identifiers to feature ids and the   *)
(* resolver of identifiers, as written in flatmap-viewer.js and as         *)
(* rewritten in flatmap.ts.                                                *)
(* LayerManager (layers/flightpaths.ts): the filters of the registered     *)
(* facets and the visibility filter, combined and handed to the vector     *)
(* style layers and to the flight-path layer.                              *)
(***************************************************************************)
EXTENDS Integers, Sequences, FiniteSets, TLC

VARIABLES
    filter,       \* PropertiesFilter.#filter
    op,           \* the method of PropertiesFilter called last
    properties,   \* the argument of the last match() call
    result,       \* what the last call returned, or Thrown
    prev,         \* #filter as it was when the last call started
    arg,          \* the filter argument of the last mutator call
    aliased       \* #filter is the very object the caller passed as arg

VARIABLES
    style,                  \* FlatMap: options.style
    idToAnnotation,         \* the annotations saved so far, in the order saved
    datasetToFeatureIds,    \* normalised dataset id -> feature ids
    modelToFeatureIds,      \* normalised anatomical id -> feature ids
    sourceToFeatureIds,     \* normalised source id -> feature ids
    taxonToFeatureIds,      \* normalised taxon id -> feature ids
    featurePropertyValues,  \* property -> the values seen for it
    userInteractions,       \* _userInteractions !== null
    requested,              \* the argument of the last lookup
    resolved,               \* the feature ids the last lookup returned
    pathwayCalls            \* calls of pathwaysFeatureIds() in the last lookup

VARIABLES
    facetMap,       \* LayerManager.#facetMap: facet id -> the facet's state
    filterMap,      \* LayerManager.#filterMap, in the order of its keys
    facetId,        \* the facet id of the last call, if it had one
    mapFilter,      \* vector style layer -> the filter set on the map
    featureFilter,  \* FlightPathLayer.#featureFilter
    visibilityFilter,  \* the filter the styling layer was last given, Null
                       \* once it is cleared
    enabled,           \* FlightPathLayer.#enabled
    layerProperties    \* FlightPathLayer.#layerProperties: path type ->
                       \* the feature ids of its data

VARIABLES
    active,               \* the map style layers whose #active is true
    dimmed,               \* the raster layers of the base layer are dimmed
    baseLayer,            \* LayerManager.#baseLayer, "" for null
    currentDetailLayer,   \* LayerManager.#currentDetailLayer, "" for null
    detailsFilter,        \* the layer of LayerManager.#detailsFilter, "" for
                          \* null
    revertDetailZoom,     \* LayerManager.#revertDetailZoom, in half levels
    zoom                  \* map.getZoom(), in half levels

VARIABLES
    hidden,                \* the path features whose state has 'hidden'
    disabledPathFeatures   \* UserInteractions._disabledPathFeatures

VARIABLES
    panes,         \* MapViewer.#panes
    initialised,   \* MapViewer.#initialised
    mapList,       \* MapViewer.#mapList
    fetches,       \* the times #mapServer.flatMaps() has resolved
    mutex,         \* the call inside #initialisingMutex.dispatch, or 0
    mapNumber,     \* MapViewer.#mapNumber
    mapsByPane,    \* MapViewer.#mapsByPane: map number -> flatmap
    flatmaps,      \* the FlatMap objects created so far
    call,          \* the allMaps() and loadMap() calls under way
    mapsRead,      \* #mapList as the call that read it last found it
    returned       \* the flatmap the loadMap() that ended last returned

VARIABLES
    draw,                    \* the ids of the features in the MapboxDraw control
    committedFeatures,       \* the keys of __committedFeatures
    uncommittedFeatureIds,   \* __uncommittedFeatureIds
    features,                \* the features given an id so far
    outstanding,             \* feature id -> the event the annotator has
                             \* received for it and not yet answered
    sent                     \* the event of the last handler call

filterVars == <<filter, properties, result, prev, arg, aliased>>

drawVars ==
    <<draw, committedFeatures, uncommittedFeatureIds, features, outstanding,
      sent>>

viewerVars ==
    <<panes, initialised, mapList, fetches, mutex, mapNumber, mapsByPane,
      flatmaps, call, mapsRead, returned>>

pathVars == <<hidden, disabledPathFeatures>>

detailVars ==
    <<active, dimmed, baseLayer, currentDetailLayer, detailsFilter,
      revertDetailZoom, zoom>>

controlVars == <<pathVars, viewerVars, drawVars, detailVars>>

flightVars == <<enabled, layerProperties>>

layerVars ==
    <<facetMap, filterMap, facetId, mapFilter, featureFilter,
      visibilityFilter, flightVars>>

flatmapVars ==
    <<style, idToAnnotation, datasetToFeatureIds, modelToFeatureIds,
      sourceToFeatureIds, taxonToFeatureIds, featurePropertyValues,
      userInteractions, requested, resolved, pathwayCalls>>

vars == <<op, filterVars, flatmapVars, layerVars, controlVars>>

-----------------------------------------------------------------------------
(* Bounds of the model.                                                    *)

MaxLen == 2        \* longest list value (in a filter and in a dictionary)
MaxOperands == 3   \* longest AND/OR operand array
MaxDepth == 2      \* narrow()/expand() are not called on a deeper tree

-----------------------------------------------------------------------------
(* JavaScript values.  Every value is a record tagged by its type, so that *)
(* values of different types can be compared.                              *)

Null == [t |-> "null"]
Undefined == [t |-> "undefined"]
Thrown == [t |-> "throw"]          \* the call ended with an exception
Bool(b) == [t |-> "bool", b |-> b]
Num(n) == [t |-> "num", n |-> n]
Str(s) == [t |-> "str", s |-> s]
Arr(a) == [t |-> "arr", a |-> a]
\* an object: its own enumerable entries, in Object.entries() order
Obj(e) == [t |-> "obj", e |-> e]
Entry(k, x) == [k |-> k, x |-> x]
Obj1(k, x) == Obj(<<Entry(k, x)>>)

\* Array.isArray(v)
IsArray(v) == v.t = "arr"

\* v.constructor === Object
IsObject(v) == v.t = "obj"

\* !!v
Truthy(v) ==
    CASE v.t = "bool" -> v.b
      [] v.t = "num" -> v.n # 0
      [] v.t = "str" -> v.s # ""
      [] v.t \in {"null", "undefined"} -> FALSE
      [] OTHER -> TRUE

-----------------------------------------------------------------------------
(* PropertiesFilter.#match                                                 *)

\* matches.reduce((result, match) => result && match, true) for AND,
\* matches.reduce((result, match) => result || match, false) for OR
RECURSIVE Reduce(_, _, _, _)
Reduce(key, matches, i, acc) ==
    IF i > Len(matches) THEN acc
    ELSE Reduce(key, matches, i + 1,
                IF key = "AND" THEN acc /\ matches[i] ELSE acc \/ matches[i])

\* a faulty MatchReduce, the two seeds exchanged
MatchReduceSeedsSwapped(key, matches) == Reduce(key, matches, 1, key # "AND")

MatchReduce(key, matches) == Reduce(key, matches, 1, key = "AND")

\* a faulty ValidOperands, the length not tested
ValidOperandsAnyLength(expr) == IsArray(expr)

\* Array.isArray(expr) && expr.length >= 2
ValidOperands(expr) == IsArray(expr) /\ Len(expr.a) >= 2

\* (expr in properties): the key is the string the operand converts to
HasProperty(props, expr) == expr.t = "str" /\ expr.s \in DOMAIN props

\* a faulty MatchValue, a scalar value never looked up in a list expression
MatchValueNoIncludes(value, expr) ==
    IF IsArray(value)
    THEN IF IsArray(expr)
         THEN \E i \in 1..Len(value.a) : \E j \in 1..Len(expr.a) :
                  value.a[i] = expr.a[j]
         ELSE \E i \in 1..Len(value.a) : value.a[i] = expr
    ELSE value = expr

\* the branch of #match taken when key is in properties
MatchValue(value, expr) ==
    IF IsArray(value)
    THEN IF IsArray(expr)
         THEN \E i \in 1..Len(value.a) : \E j \in 1..Len(expr.a) :
                  value.a[i] = expr.a[j]
         ELSE \E i \in 1..Len(value.a) : value.a[i] = expr
    ELSE IF IsArray(expr)
         THEN \E j \in 1..Len(expr.a) : expr.a[j] = value
         ELSE value = expr

\* a faulty MatchNot, the negation left out
MatchNotKept(m) == m

\* !this.#match(properties, expr), given what the inner call returned
MatchNot(m) == IF m = Thrown THEN Thrown ELSE Bool(~m.b)

\* a faulty MatchKeyValue, an absent key not matched
MatchKeyValueStrict(props, key, expr) ==
    key \in DOMAIN props /\ MatchValue(props[key], expr)

\* the value of `matched` for a key that is none of AND, OR, HAS, NOT
MatchKeyValue(props, key, expr) ==
    IF key \in DOMAIN props THEN MatchValue(props[key], expr) ELSE TRUE

\* the value of `matched` for an AND/OR key whose operands returned ms
MatchOperands(key, expr, ms) ==
    IF ValidOperands(expr)
    THEN IF \E i \in 1..Len(ms) : ms[i] = Thrown
         THEN Thrown
         ELSE Bool(MatchReduce(key, [i \in 1..Len(ms) |-> ms[i].b]))
    ELSE Bool(TRUE)     \* console.warn, matched stays true

RECURSIVE Match(_, _)
RECURSIVE MatchEntries(_, _, _)

\* one turn of the loop over Object.entries(filter): the value of `matched`
MatchEntry(props, key, expr) ==
    IF key \in {"AND", "OR"}
    THEN MatchOperands(key, expr,
             IF ValidOperands(expr)
             THEN [i \in 1..Len(expr.a) |-> Match(props, expr.a[i])]
             ELSE <<>>)
    ELSE IF key = "HAS" THEN Bool(HasProperty(props, expr))
    ELSE IF key = "NOT" THEN MatchNot(Match(props, expr))
    ELSE Bool(MatchKeyValue(props, key, expr))

\* a faulty MatchEntries, returning after the first entry
MatchEntriesFirstOnly(props, entries, i) ==
    IF i > Len(entries) THEN Bool(TRUE)
    ELSE MatchEntry(props, entries[i].k, entries[i].x)

\* the loop from the i-th entry on: false at the first entry not matched
MatchEntries(props, entries, i) ==
    IF i > Len(entries) THEN Bool(TRUE)
    ELSE LET matched == MatchEntry(props, entries[i].k, entries[i].x)
         IN  IF matched = Thrown THEN Thrown
             ELSE IF ~matched.b THEN Bool(FALSE)
             ELSE MatchEntries(props, entries, i + 1)

Match(props, f) ==
    IF f.t \in {"null", "undefined"} THEN Thrown   \* filter.constructor
    ELSE IF ~IsObject(f) THEN Bool(Truthy(f))
    ELSE MatchEntries(props, f.e, 1)

-----------------------------------------------------------------------------
(* PropertiesFilter.#makeStyleFilter                                       *)

\* a faulty StyleNot, every compiled array wrapped in '!'
StyleNotWrapped(filterExpr) ==
    IF filterExpr = Thrown THEN Thrown
    ELSE IF IsArray(filterExpr) THEN Arr(<<Str("!"), filterExpr>>)
    ELSE Arr(<<Bool(~Truthy(filterExpr))>>)

\* what the NOT branch pushes (as an array), given the compiled operand
StyleNot(filterExpr) ==
    IF filterExpr = Thrown THEN Thrown
    ELSE IF IsArray(filterExpr)
    THEN LET e == filterExpr.a
         IN  IF Len(e) = 2 /\ e[1] \in {Str("has"), Str("!has")}
             THEN IF e[1] = Str("has")
                  THEN Arr(<<Str("!has"), e[2]>>)
                  ELSE Arr(<<Str("has"), e[2]>>)
             ELSE IF Len(e) = 3 /\ e[1] \in {Str("=="), Str("!=")}
             THEN IF e[1] = Str("==")
                  THEN Arr(<<Str("!="), e[2], e[3]>>)
                  ELSE Arr(<<Str("=="), e[2], e[3]>>)
             ELSE Arr(<<Str("!"), filterExpr>>)
    ELSE Arr(<<Bool(~Truthy(filterExpr))>>)

\* what the last branch pushes for a key that is none of AND, OR, HAS, NOT
StyleKeyValue(key, expr) ==
    IF IsArray(expr)
    THEN Arr(<<Str("any")>> \o
             [i \in 1..Len(expr.a) |-> Arr(<<Str("=="), Str(key), expr.a[i]>>)])
    ELSE Arr(<<Str("=="), Str(key), expr>>)

\* a faulty StyleOperands, 'all' and 'any' exchanged
StyleOperandsSwapped(key, expr, cs) ==
    IF ValidOperands(expr)
    THEN IF \E i \in 1..Len(cs) : cs[i] = Thrown
         THEN Thrown
         ELSE Arr(<<Str(IF key = "AND" THEN "any" ELSE "all")>> \o cs)
    ELSE Arr(<<>>)

\* what the AND/OR branch pushes, given the compiled operands cs
StyleOperands(key, expr, cs) ==
    IF ValidOperands(expr)
    THEN IF \E i \in 1..Len(cs) : cs[i] = Thrown
         THEN Thrown
         ELSE Arr(<<Str(IF key = "AND" THEN "all" ELSE "any")>> \o cs)
    ELSE Arr(<<>>)      \* console.warn, nothing is pushed

RECURSIVE MakeStyleFilter(_)
RECURSIVE StyleEntries(_, _, _)

\* one turn of the loop: the elements pushed on styleFilter (as an array),
\* or Thrown
StyleEntry(key, expr) ==
    IF key \in {"AND", "OR"}
    THEN StyleOperands(key, expr,
             IF ValidOperands(expr)
             THEN [i \in 1..Len(expr.a) |-> MakeStyleFilter(expr.a[i])]
             ELSE <<>>)
    ELSE IF key = "HAS" THEN Arr(<<Str("has"), expr>>)
    ELSE IF key = "NOT" THEN StyleNot(MakeStyleFilter(expr))
    ELSE StyleKeyValue(key, expr)

\* the loop from the i-th entry on, styleFilter holding acc so far
StyleEntries(entries, i, acc) ==
    IF i > Len(entries) THEN Arr(acc)
    ELSE LET pushed == StyleEntry(entries[i].k, entries[i].x)
         IN  IF pushed = Thrown THEN Thrown
             ELSE StyleEntries(entries, i + 1, acc \o pushed.a)

MakeStyleFilter(f) ==
    IF f.t \in {"null", "undefined"} THEN Thrown   \* filter.constructor
    ELSE IF ~IsObject(f) THEN Bool(Truthy(f))
    ELSE StyleEntries(f.e, 1, <<>>)

-----------------------------------------------------------------------------
(* The inputs: property dictionaries and filters.                          *)

\* property names: `kind` holds a scalar, `taxons` a scalar or a list
Keys == {"kind", "taxons"}
Values == {1, 2}

Scalars == {Num(v) : v \in Values}
ListsUpTo(S, n) == UNION {[1..m -> S] : m \in 0..n}
Lists == {Arr(l) : l \in ListsUpTo(Scalars, MaxLen)}

\* the values a dictionary may hold under a key
PropertyValues(k) == IF k = "taxons" THEN Scalars \cup Lists ELSE Scalars

\* the property dictionaries: functions from the keys present to their values
Props ==
    UNION {{p \in [D -> Scalars \cup Lists] :
                \A k \in D : p[k] \in PropertyValues(k)} : D \in SUBSET Keys}

NoProperties == [k \in {} |-> Null]

Has(k) == Obj1("HAS", Str(k))
Not(f) == Obj1("NOT", f)
And(fs) == Obj1("AND", Arr(fs))
Or(fs) == Obj1("OR", Arr(fs))

\* single-key leaves: {HAS: k}, {k: v}, {k: [v1, ...]}
Atoms ==
    {Has(k) : k \in Keys}
    \cup {Obj1(k, x) : k \in Keys, x \in Scalars \cup Lists}

\* key/value nodes whose expression is no scalar and no list of scalars
OddAtoms ==
    {Obj1("kind", Null), Obj1("taxons", Bool(TRUE)), Obj1("kind", Obj(<<>>))}

\* the sub-filters AND/OR arrays are built from (null is no filter)
Operands ==
    {Has("taxons"), Obj1("kind", Num(1)),
     Obj1("taxons", Arr(<<Num(1), Num(2)>>)), Not(Obj1("kind", Num(2))), Null}

\* AND/OR over an array of 0..MaxOperands operands
Junctions ==
    {Obj1(key, Arr(fs)) :
        key \in {"AND", "OR"}, fs \in ListsUpTo(Operands, MaxOperands)}

\* AND/OR whose operand is no array at all
NonArrayJunctions ==
    {Obj1(key, x) : key \in {"AND", "OR"}, x \in {Null, Num(1), Has("kind")}}

\* objects with two keys, in both orders
SiblingEntries ==
    {Entry("kind", Num(1)), Entry("taxons", Arr(<<Num(1), Num(2)>>)),
     Entry("HAS", Str("taxons")), Entry("NOT", Obj1("kind", Num(2))),
     Entry("AND", Arr(<<>>)),
     Entry("OR", Arr(<<Has("kind"), Obj1("taxons", Num(1))>>))}

MultiKey ==
    {Obj(<<es[1], es[2]>>) :
        es \in {p \in SiblingEntries \X SiblingEntries : p[1].k # p[2].k}}

\* trees two junctions deep
Composites ==
    {And(<<Obj1("kind", Num(1)), Has("taxons")>>),
     Or(<<Not(Obj1("kind", Num(1))), Obj1("taxons", Num(2))>>),
     Not(Or(<<Has("kind"), Has("taxons")>>))}

Nested ==
    {Obj1(key, Arr(<<f, g>>)) :
        key \in {"AND", "OR"}, f \in Composites, g \in Composites}

Negations ==
    {Not(f) : f \in Atoms \cup {Bool(TRUE), Bool(FALSE), Null, Obj(<<>>)}
                   \cup {Not(a) : a \in Atoms}
                   \cup {j \in Junctions : Len(j.e[1].x.a) <= 2}
                   \cup NonArrayJunctions \cup MultiKey}

\* the filters match() and makeStyleFilter() are evaluated on
EvalFilters ==
    {Bool(TRUE), Bool(FALSE), Obj(<<>>)} \cup Atoms \cup OddAtoms
    \cup Junctions \cup NonArrayJunctions \cup MultiKey \cup Nested
    \cup Negations

-----------------------------------------------------------------------------
(* PropertiesFilter: construction and the two evaluations.                 *)

\* Object.assign({}, v): the own enumerable entries of v, none for a
\* boolean, a number, null or undefined
ObjectAssign(v) == IF IsObject(v) THEN Obj(v.e) ELSE Obj(<<>>)

\* what the constructor and setFilter store
Stored(f) == IF ~IsObject(f) THEN f ELSE ObjectAssign(f)

\* a map none of whose annotations has been saved
NoAnnotations ==
    /\ idToAnnotation = <<>>
    /\ datasetToFeatureIds = <<>>
    /\ modelToFeatureIds = <<>>
    /\ sourceToFeatureIds = <<>>
    /\ taxonToFeatureIds = <<>>
    /\ featurePropertyValues = <<>>
    /\ userInteractions = FALSE
    /\ requested = Undefined
    /\ resolved = <<>>
    /\ pathwayCalls = 0

\* no map has been loaded
NoFlatMap == style = "anatomical" /\ NoAnnotations

\* the vector style layers of the map's styling layers
VectorStyleLayers == {"body", "border", "plain"}

\* layer.defaultFilter(): the filter of the layer's style, if it has one
DefaultFilter(layer) ==
    CASE layer = "body" ->
             Arr(<<Str("all"),
                   Arr(<<Str("=="), Str("$type"), Str("Polygon")>>),
                   Arr(<<Str("=="), Str("models"), Str("UBERON:0013702")>>)>>)
      [] layer = "border" ->
             Arr(<<Str("=="), Str("$type"), Str("Polygon")>>)
      [] OTHER -> Null

\* #pathTypes: the types of the path styles; the kinds 1 and 2 are path
\* types, any other kind is not
PathTypes == <<Num(1), Num(2), Str("other")>>

\* the path types but 'other'
KnownTypes == SelectSeq(PathTypes, LAMBDA pathType : pathType # Str("other"))

\* #pathFeatures: feature id -> the properties of the path's annotation
PathFeatures ==
    <<("kind" :> Num(1)),
      ("kind" :> Num(2)) @@ ("taxons" :> Num(1)),
      ("kind" :> Num(3)),
      ("kind" :> Num(1)) @@ ("taxons" :> Arr(<<Num(1), Num(2)>>))>>

\* #pathFilters.get(pathType)
PathFilter(pathType) ==
    Stored(Or(<<And(<<Obj1("kind", Arr(KnownTypes)),
                      Obj1("kind", pathType)>>),
                And(<<Not(Obj1("kind", Arr(KnownTypes))),
                      Obj1("pathType", Str("other"))>>)>>))

\* #pathData(pathType), with the visibility filter given
PathData(pathType, visibility) ==
    {featureId \in DOMAIN PathFeatures :
        /\ Truthy(Match(PathFeatures[featureId], PathFilter(pathType)))
        /\ Truthy(Match(PathFeatures[featureId], visibility))}

\* new Map(#pathTypes.map(pathType => [pathType, #newLayerProperties()]))
NewLayerProperties(visibility) ==
    [i \in DOMAIN PathTypes |-> PathData(PathTypes[i], visibility)]

\* a LayerManager with no facet and no visibility filter; the style layers
\* are on the map with the filters of their styles, the flight paths are
\* not enabled
NoFilters ==
    /\ facetMap = <<>>
    /\ filterMap = <<>>
    /\ facetId = ""
    /\ mapFilter = [layer \in VectorStyleLayers |-> DefaultFilter(layer)]
    /\ featureFilter = Bool(TRUE)
    /\ visibilityFilter = Null
    /\ enabled = FALSE
    /\ layerProperties = NewLayerProperties(Bool(TRUE))

\* UserInteractions as constructed: no path feature is hidden
NoPaths ==
    /\ hidden = {}
    /\ disabledPathFeatures = FALSE

MaxCalls == 2      \* allMaps() and loadMap() calls under way together

Calls == 1..MaxCalls

\* a call that has not been made
NoCall == [pc |-> "idle", kind |-> "", uuid |-> "", flatmap |-> 0]

\* no call has read #mapList
NoRead == [list |-> <<>>, sure |-> FALSE, by |-> ""]

\* new MapViewer(mapServerUrl, {container})
NoMaps ==
    /\ initialised = FALSE
    /\ mapList = <<>>
    /\ fetches = 0
    /\ mutex = 0
    /\ mapNumber = 0
    /\ mapsByPane = <<>>
    /\ flatmaps = 0
    /\ call = [c \in Calls |-> NoCall]
    /\ mapsRead = NoRead
    /\ returned = 0

NoViewer == panes = 1 /\ NoMaps

MaxFeatures == 3   \* features drawn or added

FeatureIds == 1..MaxFeatures

\* no event: nothing was handed to #sendEvent
NoEvent == [type |-> "", id |-> 0, delivered |-> FALSE]

\* new AnnotationDrawControl(flatmap)
NoDrawing ==
    /\ draw = {}
    /\ committedFeatures = {}
    /\ uncommittedFeatureIds = {}
    /\ features = 0
    /\ outstanding = [featureId \in FeatureIds |-> ""]
    /\ sent = NoEvent

\* the zoom levels of the map, in half levels
MaxZoom == 6
ZoomLevels == 0..MaxZoom

\* flatmap.layers: a layer that is shown from the start, and two detail
\* layers
MapStyleLayers == {"base", "detail-1", "detail-2"}
DetailLayers == {"detail-1", "detail-2"}

\* a LayerManager as constructed: the detail layers are deactivated, none
\* of them is the current one
NoDetails ==
    /\ active = MapStyleLayers \ DetailLayers
    /\ dimmed = FALSE
    /\ baseLayer = ""
    /\ currentDetailLayer = ""
    /\ detailsFilter = ""
    /\ revertDetailZoom = -1
    /\ zoom = 0

NoControls == NoPaths /\ NoViewer /\ NoDrawing /\ NoDetails

\* new PropertiesFilter(f)
Constructed(f) ==
    /\ filter = Stored(f)
    /\ op = "new"
    /\ properties = NoProperties
    /\ result = Undefined
    /\ prev = Undefined
    /\ arg = f
    /\ aliased = FALSE

match(props) ==
    /\ op' = "match"
    /\ properties' = props
    /\ result' = Match(props, filter)
    /\ prev' = filter
    /\ arg' = Undefined
    /\ aliased' = FALSE
    /\ UNCHANGED <<filter, flatmapVars, layerVars, controlVars>>

makeStyleFilter ==
    /\ op' = "makeStyleFilter"
    /\ properties' = NoProperties
    /\ result' = MakeStyleFilter(filter)
    /\ prev' = filter
    /\ arg' = Undefined
    /\ aliased' = FALSE
    /\ UNCHANGED <<filter, flatmapVars, layerVars, controlVars>>

matchAny == \E props \in Props : match(props)

\* One evaluation of each filter of EvalFilters, freshly constructed: match()
\* and makeStyleFilter() leave #filter alone, so a second call on the same
\* object returns what the first call on it returns.
InitEval ==
    NoFlatMap /\ NoFilters /\ NoControls /\ \E f \in EvalFilters : Constructed(f)
NextEval ==
    \/ op = "new" /\ matchAny
    \/ op = "new" /\ makeStyleFilter
SpecEval == InitEval /\ [][NextEval]_vars

-----------------------------------------------------------------------------
(* PropertiesFilter: the mutators.                                         *)

\* how deep the AND/OR/NOT nodes of a filter nest
RECURSIVE Depth(_)
MaxOf(S) == IF S = {} THEN 0 ELSE CHOOSE y \in S : \A z \in S : z <= y

EntryDepth(e) ==
    IF e.k \in {"AND", "OR"} /\ IsArray(e.x)
    THEN MaxOf({Depth(e.x.a[i]) : i \in 1..Len(e.x.a)})
    ELSE IF e.k = "NOT" THEN Depth(e.x)
    ELSE 0

Depth(f) ==
    IF ~IsObject(f) THEN 0
    ELSE 1 + MaxOf({EntryDepth(f.e[i]) : i \in 1..Len(f.e)})

\* the part every mutator shares: what the call is and what it returned
Called(name, f, outcome) ==
    /\ op' = name
    /\ arg' = f
    /\ prev' = filter
    /\ properties' = NoProperties
    /\ result' = outcome
    /\ UNCHANGED <<flatmapVars, layerVars, controlVars>>

clear ==
    /\ filter' = IF filter # Bool(TRUE) THEN Bool(TRUE) ELSE filter
    /\ aliased' = FALSE
    /\ Called("clear", Undefined, Undefined)

\* #filter after expand(f)
Expanded(f) ==
    IF filter = Bool(FALSE) THEN f
    ELSE IF filter # Bool(TRUE) THEN Or(<<filter, ObjectAssign(f)>>)
    ELSE filter

\* expand(f) stores f itself, not a copy, when #filter is false
ExpandKeepsArgument(f) == filter = Bool(FALSE) /\ IsObject(f)

expand(f) ==
    /\ Depth(filter) < MaxDepth
    /\ filter' = Expanded(f)
    /\ aliased' = ExpandKeepsArgument(f)
    /\ Called("expand", f, Undefined)

\* invert() on a tree reads `filter`, which names nothing in invert() nor
\* in the module: evaluating it is a ReferenceError, and #filter is kept.
invert ==
    /\ aliased' = FALSE
    /\ IF filter = Bool(FALSE)
       THEN filter' = Bool(TRUE) /\ Called("invert", Undefined, Undefined)
       ELSE IF filter = Bool(TRUE)
       THEN filter' = Bool(FALSE) /\ Called("invert", Undefined, Undefined)
       ELSE filter' = filter /\ Called("invert", Undefined, Thrown)

\* #filter after narrow(f)
\* a faulty Narrowed, the old filter dropped from the conjunction
NarrowedAlone(f) ==
    IF filter = Bool(TRUE) THEN f
    ELSE IF filter # Bool(FALSE) THEN And(<<ObjectAssign(f)>>)
    ELSE filter

Narrowed(f) ==
    IF filter = Bool(TRUE) THEN f
    ELSE IF filter # Bool(FALSE) THEN And(<<filter, ObjectAssign(f)>>)
    ELSE filter

\* narrow(f) stores f itself, not a copy, when #filter is true
NarrowKeepsArgument(f) == filter = Bool(TRUE) /\ IsObject(f)

narrow(f) ==
    /\ Depth(filter) < MaxDepth
    /\ filter' = Narrowed(f)
    /\ aliased' = NarrowKeepsArgument(f)
    /\ Called("narrow", f, Undefined)

setFilter(f) ==
    /\ filter' = Stored(f)
    /\ aliased' = FALSE
    /\ Called("setFilter", f, Undefined)

\* what a caller may turn the object it passed into: a top-level key
\* removed, replaced or added
Replacement(k) ==
    IF k = "NOT" THEN Has("kind") ELSE IF k = "HAS" THEN Str("kind") ELSE Num(2)

Edits(f) ==
    IF IsObject(f) /\ Len(f.e) > 0
    THEN {Obj(<<>>), Obj1(f.e[1].k, Replacement(f.e[1].k)),
          Obj(f.e \o <<Entry("extra", Num(1))>>)} \ {f}
    ELSE {}

\* the caller changes the object it passed to the last call; #filter
\* changes with it when it is that object
callerEdits(g) ==
    /\ op \in {"new", "setFilter", "narrow", "expand"}
    /\ g \in Edits(arg)
    /\ op' = "edit"
    /\ arg' = g
    /\ filter' = IF aliased THEN g ELSE filter
    /\ prev' = filter
    /\ properties' = NoProperties
    /\ result' = Undefined
    /\ UNCHANGED <<aliased, flatmapVars, layerVars, controlVars>>

\* the filters callers pass to the constructor and to the mutators
FilterArgs ==
    {Bool(TRUE), Bool(FALSE), Obj1("kind", Num(1)), Has("taxons"),
     Not(Obj1("taxons", Arr(<<Num(1)>>)))}

Init ==
    NoFlatMap /\ NoFilters /\ NoControls
        /\ \E f \in FilterArgs : Constructed(f)

Next ==
    \/ clear
    \/ \E f \in FilterArgs : expand(f)
    \/ invert
    \/ \E f \in FilterArgs : narrow(f)
    \/ \E f \in FilterArgs : setFilter(f)
    \/ \E g \in Edits(arg) : callerEdits(g)
    \/ matchAny
    \/ makeStyleFilter

Spec == Init /\ [][Next]_vars

-----------------------------------------------------------------------------
(* The shapes of filter the properties below are about.                    *)

Operators == {"AND", "OR", "HAS", "NOT"}

\* an object with exactly one key
SingleKey(f) == f.t = "obj" /\ Len(f.e) = 1
KeyOf(f) == f.e[1].k
ExprOf(f) == f.e[1].x

\* {key: expr} with key none of AND, OR, HAS, NOT
KeyValueNode(f) == SingleKey(f) /\ KeyOf(f) \notin Operators

\* an array of at least two elements
AtLeastTwo(x) == x.t = "arr" /\ Len(x.a) >= 2

\* a scalar, or a list of scalars
ScalarOrList(x) ==
    \/ x.t = "num"
    \/ x.t = "arr" /\ \A i \in 1..Len(x.a) : x.a[i].t = "num"

\* built from HAS, NOT, AND/OR of at least two operands, scalar and list
\* key/value nodes, one key to an object
RECURSIVE WellFormed(_)
WellFormed(f) ==
    /\ SingleKey(f)
    /\ CASE KeyOf(f) \in {"AND", "OR"} ->
                /\ AtLeastTwo(ExprOf(f))
                /\ \A i \in 1..Len(ExprOf(f).a) : WellFormed(ExprOf(f).a[i])
         [] KeyOf(f) = "HAS" -> ExprOf(f).t = "str"
         [] KeyOf(f) = "NOT" -> WellFormed(ExprOf(f))
         [] OTHER -> ScalarOrList(ExprOf(f))

\* the renderer's evaluation of a compiled filter against a feature's
\* properties: all, any, has, !has, ==, !=, !
RECURSIVE Renders(_, _)
Renders(props, e) ==
    IF e.t = "bool" THEN e.b
    ELSE IF e.t # "arr" \/ Len(e.a) = 0 THEN TRUE
    ELSE LET head == e.a[1]
             rest == 2..Len(e.a)
             present == e.a[2].t = "str" /\ e.a[2].s \in DOMAIN props
         IN  CASE head = Str("all") -> \A i \in rest : Renders(props, e.a[i])
               [] head = Str("any") -> \E i \in rest : Renders(props, e.a[i])
               [] head = Str("has") -> present
               [] head = Str("!has") -> ~present
               [] head = Str("==") -> present /\ props[e.a[2].s] = e.a[3]
               [] head = Str("!=") -> ~(present /\ props[e.a[2].s] = e.a[3])
               [] head = Str("!") -> ~Renders(props, e.a[2])
               [] OTHER -> TRUE

-----------------------------------------------------------------------------
(* C1: for every well-formed filter F and every property dictionary P, the *)
(* compiled makeStyleFilter() of F, evaluated by the renderer against P,   *)
(* gives the boolean match(P) returns.                                     *)
C1_StyleFilterAgreesWithMatch ==
    (op = "match" /\ WellFormed(filter))
        => result = Bool(Renders(properties, MakeStyleFilter(filter)))

(* C2: match(P) of {NOT: F} is the negation of match(P) of F, for every    *)
(* filter F of one node (and it throws exactly when match(P) of F throws). *)
C2_NotNegatesMatch ==
    (op = "match" /\ (SingleKey(filter) \/ filter.t = "bool"))
        => LET negated == Match(properties, Stored(Not(filter)))
           IN  IF result = Thrown THEN negated = Thrown
               ELSE negated = Bool(~result.b)

C2_Witness ==
    /\ op = "match"
    /\ filter = Obj1("taxons", Arr(<<Num(1), Num(2)>>))
    /\ "taxons" \in DOMAIN properties
    /\ result = Bool(FALSE)

(* C3: on an AND node of at least 2 operands match(P) is true iff every    *)
(* operand matches P, on an OR node iff at least one operand matches P.    *)
C3_AndOrMatch ==
    (/\ op = "match"
     /\ SingleKey(filter)
     /\ KeyOf(filter) \in {"AND", "OR"}
     /\ AtLeastTwo(ExprOf(filter))
     /\ \A i \in 1..Len(ExprOf(filter).a) :
            Match(properties, ExprOf(filter).a[i]) # Thrown)
        => LET operands == ExprOf(filter).a
               matches(i) == Match(properties, operands[i]) = Bool(TRUE)
           IN  result = Bool(IF KeyOf(filter) = "AND"
                             THEN \A i \in 1..Len(operands) : matches(i)
                             ELSE \E i \in 1..Len(operands) : matches(i))

C3_Witness ==
    /\ op = "match"
    /\ filter = And(<<Has("taxons"), Obj1("kind", Num(1)),
                      Not(Obj1("kind", Num(2)))>>)
    /\ properties = [k \in {"kind"} |-> Num(1)]
    /\ result = Bool(FALSE)

(* C4: a key/value node {key: expr} matches every property dictionary that *)
(* does not contain key, whatever expr is.                                 *)
C4_AbsentKeyMatches ==
    (op = "match" /\ KeyValueNode(filter)
        /\ KeyOf(filter) \notin DOMAIN properties)
        => result = Bool(TRUE)

C4_Witness ==
    /\ op = "match"
    /\ filter = Obj1("kind", Num(1))
    /\ properties = [k \in {"taxons"} |-> Num(1)]
    /\ result = Bool(TRUE)

(* C5: a key/value node {key: expr} on a dictionary P that contains key:   *)
(* when P[key] is a list, match is true iff it shares an element with expr *)
(* (a scalar expr counting as a one-element list); when P[key] is a scalar,*)
(* iff it equals expr or is a member of the list expr.                     *)
C5_KeyValueMatch ==
    (op = "match" /\ KeyValueNode(filter)
        /\ KeyOf(filter) \in DOMAIN properties)
        => LET value == properties[KeyOf(filter)]
               expr == ExprOf(filter)
               members == IF expr.t = "arr"
                          THEN {expr.a[i] : i \in 1..Len(expr.a)}
                          ELSE {expr}
           IN  result = Bool(IF value.t = "arr"
                             THEN \E i \in 1..Len(value.a) :
                                      value.a[i] \in members
                             ELSE \/ value = expr
                                  \/ expr.t = "arr" /\ value \in members)

C5_Witness ==
    /\ op = "match"
    /\ filter = Obj1("taxons", Arr(<<Num(1), Num(2)>>))
    /\ properties = [k \in {"taxons"} |-> Arr(<<Num(2), Num(2)>>)]
    /\ result = Bool(TRUE)

(* C6: an object node of several keys matches P iff each of its keys,      *)
(* taken alone as a one-key filter, matches P.                             *)
C6_SiblingKeysAnded ==
    (op = "match" /\ filter.t = "obj" /\ Len(filter.e) >= 2)
        => result = Bool(\A i \in 1..Len(filter.e) :
                           Match(properties, Obj(<<filter.e[i]>>)) = Bool(TRUE))

C6_Witness ==
    /\ op = "match"
    /\ filter = Obj(<<Entry("HAS", Str("taxons")), Entry("kind", Num(1))>>)
    /\ properties = [k \in Keys |-> Num(2)]
    /\ result = Bool(FALSE)

(* C7: in every filter state, boolean or tree, invert() does not throw and *)
(* afterwards match(P) is the negation of what it was before, for every P. *)
C7_InvertNegatesMatch ==
    op = "invert"
        => /\ result # Thrown
           /\ \A props \in Props :
                  /\ Match(props, prev) # Thrown
                  /\ Match(props, filter) = Bool(~Match(props, prev).b)

\* an AND or OR entry whose operand is not an array of at least 2 elements
TooFewOperands(e) == e.k \in {"AND", "OR"} /\ ~AtLeastTwo(e.x)

\* some node of the tree is an AND or OR with too few operands
RECURSIVE HasTooFewOperands(_)
HasTooFewOperands(f) ==
    /\ f.t = "obj"
    /\ \E i \in 1..Len(f.e) :
           LET e == f.e[i]
           IN  \/ TooFewOperands(e)
               \/ /\ e.k \in {"AND", "OR"}
                  /\ \E j \in 1..Len(e.x.a) : HasTooFewOperands(e.x.a[j])
               \/ e.k = "NOT" /\ HasTooFewOperands(e.x)

\* some operand of a NOT, or of an AND or OR of at least 2 operands, is null
RECURSIVE HasNullOperand(_)
HasNullOperand(f) ==
    \/ f = Null
    \/ /\ f.t = "obj"
       /\ \E i \in 1..Len(f.e) :
              LET e == f.e[i]
              IN  \/ /\ e.k \in {"AND", "OR"}
                     /\ AtLeastTwo(e.x)
                     /\ \E j \in 1..Len(e.x.a) : HasNullOperand(e.x.a[j])
                  \/ e.k = "NOT" /\ HasNullOperand(e.x)

\* the object without its AND/OR entries of too few operands
WithoutTooFew(f) == Obj(SelectSeq(f.e, LAMBDA e : ~TooFewOperands(e)))

(* C8: on a filter with an AND or OR node of too few operands (no array,   *)
(* or fewer than 2 elements) neither match() nor makeStyleFilter() throws, *)
(* and match() takes the node as matched: alone it matches every P, and    *)
(* beside sibling keys it is skipped.                                      *)
C8_TooFewOperandsMatched ==
    /\ (op \in {"match", "makeStyleFilter"}
            /\ HasTooFewOperands(filter) /\ ~HasNullOperand(filter))
           => result # Thrown
    /\ (op = "match" /\ SingleKey(filter) /\ TooFewOperands(filter.e[1]))
           => result = Bool(TRUE)
    /\ (op = "match" /\ filter.t = "obj"
            /\ \E i \in 1..Len(filter.e) : TooFewOperands(filter.e[i]))
           => result = Match(properties, WithoutTooFew(filter))

C8_Witness ==
    /\ op = "match"
    /\ filter = Or(<<Obj1("kind", Num(1))>>)
    /\ properties = [k \in {"kind"} |-> Num(2)]
    /\ result = Bool(TRUE)

\* ['has', k], ['!has', k], ['==', k, v] or ['!=', k, v]
Simplifiable(c) ==
    /\ c.t = "arr"
    /\ \/ Len(c.a) = 2 /\ c.a[1] \in {Str("has"), Str("!has")}
       \/ Len(c.a) = 3 /\ c.a[1] \in {Str("=="), Str("!=")}

(* C9: makeStyleFilter() compiles {NOT: {HAS: k}} to ['!has', k] and       *)
(* {NOT: {k: v}}, v a scalar, to ['!=', k, v]; a NOT whose compiled operand*)
(* is ['!has', k] or ['!=', k, v] to ['has', k] or ['==', k, v]; a NOT over*)
(* any other compiled array E to ['!', E].                                 *)
C9_NotCompiles ==
    (op = "makeStyleFilter" /\ SingleKey(filter) /\ KeyOf(filter) = "NOT"
        /\ MakeStyleFilter(ExprOf(filter)) # Thrown)
        => LET f == ExprOf(filter)
               c == MakeStyleFilter(f)
           IN  /\ (SingleKey(f) /\ KeyOf(f) = "HAS")
                      => result = Arr(<<Str("!has"), ExprOf(f)>>)
               /\ (KeyValueNode(f) /\ ExprOf(f).t # "arr")
                      => result = Arr(<<Str("!="), Str(KeyOf(f)), ExprOf(f)>>)
               /\ (c.t = "arr" /\ Len(c.a) = 2 /\ c.a[1] = Str("!has"))
                      => result = Arr(<<Str("has"), c.a[2]>>)
               /\ (c.t = "arr" /\ Len(c.a) = 3 /\ c.a[1] = Str("!="))
                      => result = Arr(<<Str("=="), c.a[2], c.a[3]>>)
               /\ (c.t = "arr" /\ ~Simplifiable(c))
                      => result = Arr(<<Str("!"), c>>)

C9_Witness ==
    /\ op = "makeStyleFilter"
    /\ filter = Not(Not(Has("kind")))
    /\ result = Arr(<<Str("has"), Str("kind")>>)

(* C10: makeStyleFilter() of a well-formed one-key filter: AND gives       *)
(* ['all', c1, ..., cn] and OR ['any', c1, ..., cn], ci the compiled i-th  *)
(* operand; {HAS: k} gives ['has', k]; {k: [v1, ..., vn]} gives            *)
(* ['any', ['==', k, v1], ..., ['==', k, vn]]; {k: v} gives ['==', k, v].  *)
C10_StructuralMapping ==
    (op = "makeStyleFilter" /\ WellFormed(filter))
        => LET key == KeyOf(filter)
               expr == ExprOf(filter)
               compiled == [i \in 1..Len(expr.a) |-> MakeStyleFilter(expr.a[i])]
               equals == [i \in 1..Len(expr.a) |->
                             Arr(<<Str("=="), Str(key), expr.a[i]>>)]
           IN  CASE key = "AND" -> result = Arr(<<Str("all")>> \o compiled)
                 [] key = "OR" -> result = Arr(<<Str("any")>> \o compiled)
                 [] key = "HAS" -> result = Arr(<<Str("has"), expr>>)
                 [] key = "NOT" -> TRUE
                 [] OTHER ->
                        IF expr.t = "arr"
                        THEN result = Arr(<<Str("any")>> \o equals)
                        ELSE result = Arr(<<Str("=="), Str(key), expr>>)

C10_Witness ==
    /\ op = "makeStyleFilter"
    /\ filter = Or(<<And(<<Obj1("kind", Num(1)), Has("taxons")>>),
                     Not(Or(<<Has("kind"), Has("taxons")>>))>>)
    /\ result = Arr(<<Str("any"),
                      Arr(<<Str("all"),
                            Arr(<<Str("=="), Str("kind"), Num(1)>>),
                            Arr(<<Str("has"), Str("taxons")>>)>>),
                      Arr(<<Str("!"),
                            Arr(<<Str("any"),
                                  Arr(<<Str("has"), Str("kind")>>),
                                  Arr(<<Str("has"), Str("taxons")>>)>>)>>)>>)

\* C11: after narrow(G), match(P) is (match(P) before the call) AND
\* PropertiesFilter(G).match(P), for every state, argument G and P
C11_NarrowConjoins ==
    op = "narrow"
        => \A props \in Props :
               Match(props, filter)
                   = Bool(/\ Match(props, prev) = Bool(TRUE)
                          /\ Match(props, Stored(arg)) = Bool(TRUE))

\* a boolean, or an object all of whose AND/OR entries hold an array of at
\* least two such values and all of whose NOT entries hold one such value
RECURSIVE BooleanOrTree(_)
EntryFormed(e) ==
    CASE e.k \in {"AND", "OR"} ->
             /\ AtLeastTwo(e.x)
             /\ \A i \in 1..Len(e.x.a) : BooleanOrTree(e.x.a[i])
      [] e.k = "NOT" -> BooleanOrTree(e.x)
      [] OTHER -> TRUE

BooleanOrTree(f) ==
    \/ f.t = "bool"
    \/ f.t = "obj" /\ \A i \in 1..Len(f.e) : EntryFormed(f.e[i])

\* C12: after any sequence of narrow, expand, invert, clear and setFilter
\* calls the stored filter is a boolean or a tree whose AND/OR nodes hold
\* at least two operands and whose NOT nodes wrap one sub-filter
C12_StoredFilterFormed == BooleanOrTree(filter)

C12_Witness ==
    /\ op = "narrow"
    /\ prev = Obj1("kind", Num(1))
    /\ filter = And(<<Obj1("kind", Num(1)), Has("taxons")>>)

\* C13: a change the caller makes to a top-level key of the object it
\* passed to the constructor, setFilter, narrow or expand leaves the stored
\* filter, and so getFilter() and match(), as they were
C13_CallerEditsIgnored == op = "edit" => filter = prev

-----------------------------------------------------------------------------
(* FlatMap (flatmap-viewer.js): the indices built from the annotations of  *)
(* a map, and the resolver of external identifiers.                        *)

MaxAnnotations == 3    \* entries of mapDescription.annotations

\* utils.normaliseId: identifiers that differ only in the case of their
\* letters have one canonical form, in upper case
NormaliseId(id) ==
    CASE id = "uberon:1" -> "UBERON:1"
      [] id = "data:1" -> "DATA:1"
      [] id = "ilxtr:some-path" -> "ILXTR:SOME-PATH"
      [] id = "NCBITaxon:2787823" -> "NCBITAXON:2787823"
      [] id = "NCBITaxon:9606" -> "NCBITAXON:9606"
      [] OTHER -> id

\* featureIdMap.get(id), with an empty list for undefined: utils.List.extend
\* adds nothing for undefined
Get(featureIdMap, id) ==
    IF id \in DOMAIN featureIdMap THEN featureIdMap[id] ELSE <<>>

\* featureIdMap.get(key) for any value: the keys of the map are strings, an
\* array is none of them
GetKey(featureIdMap, key) ==
    IF key.t = "str" THEN Get(featureIdMap, key.s) ELSE <<>>

\* a faulty Registered, the feature id put first
RegisteredFirst(featureIdMap, id, featureId) ==
    IF id \in DOMAIN featureIdMap
    THEN [featureIdMap EXCEPT ![id] = <<featureId>> \o @]
    ELSE (id :> <<featureId>>) @@ featureIdMap

\* featureIds.push(featureId), or featureIdMap.set(id, [featureId])
Registered(featureIdMap, id, featureId) ==
    IF id \in DOMAIN featureIdMap
    THEN [featureIdMap EXCEPT ![id] = Append(@, featureId)]
    ELSE (id :> <<featureId>>) @@ featureIdMap

updateFeatureIdMapJS(property, featureIdMap, annotation) ==
    IF property \in DOMAIN annotation
    THEN Registered(featureIdMap, NormaliseId(annotation[property].s),
                    annotation["featureId"].n)
    ELSE featureIdMap

\* the annotations of a map description: dataset, models and source are
\* strings
Annotations ==
    {[models |-> Str("UBERON:1")],
     [models |-> Str("uberon:1"), dataset |-> Str("d1")],
     [models |-> Str("UBERON:2"), source |-> Str("d1")],
     [dataset |-> Str("data:1")],
     [dataset |-> Str("d1"), source |-> Str("data:1")],
     [label |-> Str("unnamed")]}

\* ann.featureId = featureId
Stamped(ann, featureId) ==
    [k \in DOMAIN ann \cup {"featureId"} |->
        IF k = "featureId" THEN Num(featureId) ELSE ann[k]]

\* the key of the next entry of mapDescription.annotations
NextFeatureId == Len(idToAnnotation) + 1

NoLookup ==
    /\ requested' = Undefined
    /\ resolved' = <<>>
    /\ pathwayCalls' = 0

addAnnotation(annotation) ==
    /\ Len(idToAnnotation) < MaxAnnotations
    /\ LET ann == Stamped(annotation, NextFeatureId)
       IN  /\ idToAnnotation' = Append(idToAnnotation, ann)
           /\ datasetToFeatureIds' =
                  updateFeatureIdMapJS("dataset", datasetToFeatureIds, ann)
           /\ modelToFeatureIds' =
                  updateFeatureIdMapJS("models", modelToFeatureIds, ann)
           /\ sourceToFeatureIds' =
                  updateFeatureIdMapJS("source", sourceToFeatureIds, ann)
    /\ op' = "addAnnotation"
    /\ NoLookup
    /\ UNCHANGED <<style, taxonToFeatureIds, featurePropertyValues,
                   userInteractions, filterVars, layerVars,
                   controlVars>>

\* this._userInteractions = new UserInteractions(this)
setupUserInteractions ==
    /\ ~userInteractions
    /\ userInteractions' = TRUE
    /\ op' = "setupUserInteractions"
    /\ NoLookup
    /\ UNCHANGED <<style, idToAnnotation, datasetToFeatureIds,
                   modelToFeatureIds, sourceToFeatureIds, taxonToFeatureIds,
                   featurePropertyValues, filterVars, layerVars, controlVars>>

\* what modelFeatureIds(anatomicalId) returns
ModelFeatureIds(anatomicalId) ==
    Get(modelToFeatureIds, NormaliseId(anatomicalId))

modelFeatureIds(anatomicalId) ==
    /\ op' = "modelFeatureIds"
    /\ requested' = Str(anatomicalId)
    /\ resolved' = ModelFeatureIds(anatomicalId)
    /\ pathwayCalls' = 0
    /\ UNCHANGED <<style, idToAnnotation, datasetToFeatureIds,
                   modelToFeatureIds, sourceToFeatureIds, taxonToFeatureIds,
                   featurePropertyValues, userInteractions, filterVars, layerVars,
                   controlVars>>

\* featureIds.extend(this.modelFeatureIds(id)) for the ids from the i-th on
RECURSIVE ExtendedByModels(_, _, _)
ExtendedByModels(featureIds, ids, i) ==
    IF i > Len(ids) THEN featureIds
    ELSE ExtendedByModels(featureIds \o ModelFeatureIds(ids[i].s), ids, i + 1)

\* the list after the lookups in the model index
ModelLookups(anatomicalIds) ==
    IF IsArray(anatomicalIds)
    THEN ExtendedByModels(<<>>, anatomicalIds.a, 1)
    ELSE ModelFeatureIds(anatomicalIds.s)

\* the list after `if (featureIds.length == 0) { // check dataset and source`
DatasetSourceLookups(featureIds, anatomicalIds) ==
    IF Len(featureIds) = 0
    THEN featureIds \o GetKey(datasetToFeatureIds, anatomicalIds)
                    \o GetKey(sourceToFeatureIds, anatomicalIds)
    ELSE featureIds

\* a faulty PathwaysAsked, the length of the list not tested
PathwaysAskedAlways(featureIds) == userInteractions

\* featureIds.length == 0 && this._userInteractions !== null
PathwaysAsked(featureIds) == Len(featureIds) = 0 /\ userInteractions

\* what connectivityModelFeatureIds() and pathModelFeatureIds() of the map's
\* pathways may return: lists of feature ids, found without the FlatMap
PathwayLists == {<<>>, <<1>>}

\* UserInteractions.pathwaysFeatureIds
PathwaysFeatureIds(connectivityModel, pathModel) ==
    connectivityModel \o pathModel

RequestedIds ==
    {Str("uberon:1"), Str("UBERON:2"), Str("d1"), Str("data:1"),
     Str("DATA:1"), Str("unknown"),
     Arr(<<Str("d1")>>), Arr(<<Str("UBERON:1"), Str("uberon:1")>>),
     Arr(<<Str("UBERON:2"), Str("d1")>>)}

modelFeatureIdList(anatomicalIds, connectivityModel, pathModel) ==
    /\ LET looked == DatasetSourceLookups(ModelLookups(anatomicalIds),
                                          anatomicalIds)
       IN  IF PathwaysAsked(looked)
           THEN /\ pathwayCalls' = 1
                /\ resolved' = looked \o PathwaysFeatureIds(connectivityModel,
                                                            pathModel)
           ELSE /\ pathwayCalls' = 0
                /\ connectivityModel = <<>> /\ pathModel = <<>>
                /\ resolved' = looked
    /\ op' = "modelFeatureIdList"
    /\ requested' = anatomicalIds
    /\ UNCHANGED <<style, idToAnnotation, datasetToFeatureIds,
                   modelToFeatureIds, sourceToFeatureIds, taxonToFeatureIds,
                   featurePropertyValues, userInteractions, filterVars, layerVars,
                   controlVars>>

\* a map whose annotations are being indexed and whose ids are looked up
InitIndex ==
    NoFlatMap /\ NoFilters /\ NoControls /\ Constructed(Bool(TRUE))

NextIndex ==
    \/ \E annotation \in Annotations : addAnnotation(annotation)
    \/ setupUserInteractions
    \/ \E id \in {"uberon:1", "UBERON:2", "d1"} : modelFeatureIds(id)
    \/ \E ids \in RequestedIds, c, p \in PathwayLists :
           modelFeatureIdList(ids, c, p)

SpecIndex == InitIndex /\ [][NextIndex]_vars

\* the feature ids of the annotations, from the i-th on, whose models is id
\* up to normalisation, in the order the annotations were indexed
RECURSIVE Carrying(_, _)
Carrying(id, i) ==
    IF i > Len(idToAnnotation) THEN <<>>
    ELSE LET ann == idToAnnotation[i]
             carries == /\ "models" \in DOMAIN ann
                        /\ NormaliseId(ann["models"].s) = NormaliseId(id)
         IN  (IF carries THEN <<ann["featureId"].n>> ELSE <<>>)
                 \o Carrying(id, i + 1)

IdsOf(anatomicalIds) ==
    IF IsArray(anatomicalIds) THEN anatomicalIds.a ELSE <<anatomicalIds>>

Range(list) == {list[i] : i \in 1..Len(list)}

\* the feature ids registered in an index for the requested ids, under the
\* normalisation used at index time
RegisteredFor(featureIdMap, anatomicalIds) ==
    UNION {Range(Get(featureIdMap, NormaliseId(IdsOf(anatomicalIds)[i].s))) :
               i \in 1..Len(IdsOf(anatomicalIds))}

\* C15: for ids asked as a string or as a list, when none is in the model
\* index the resolver returns the feature ids registered for them in the
\* dataset and source indices, under the normalisation used at index time;
\* when one is in the model index, only the model index contributes
C15_DatasetSourceFallback ==
    op = "modelFeatureIdList"
        => IF Len(ModelLookups(requested)) > 0
           THEN resolved = ModelLookups(requested)
           ELSE LET registered ==
                        RegisteredFor(datasetToFeatureIds, requested)
                            \cup RegisteredFor(sourceToFeatureIds, requested)
                IN  registered # {} => Range(resolved) = registered

-----------------------------------------------------------------------------
(* FlatMap (flatmap.ts): the indices as #saveAnnotation builds them, with  *)
(* the index of taxons.                                                    *)

UNCLASSIFIED_TAXON_ID == "NCBITaxon:2787823"

FLATMAP_STYLE == {"functional", "anatomical", "centreline", "flatmap"}

EXCLUDED_FEATURE_FILTER_PROPERTIES ==
    {"associated-details", "bounds", "class", "coordinates", "details-layer",
     "featureId", "geometry", "geom-type", "id", "label", "layer",
     "markerPosition", "name", "nerveId", "nodeId", "pathStartPosition",
     "pathEndPosition", "source", "tile-layer"}

\* models.startsWith(APINATOMY_PATH_PREFIX)
StartsWithPathPrefix(models) == models = Str("ilxtr:some-path")

\* annotation[property].length, as a condition
HasLength(value) == IF IsArray(value) THEN Len(value.a) > 0 ELSE value.s # ""

updateFeatureIdMapEntry(propertyId, featureIdMap, featureId) ==
    IF featureId # 0
    THEN LET id == NormaliseId(propertyId)
         IN  IF id \in DOMAIN featureIdMap
             THEN [featureIdMap EXCEPT ![id] = Append(@, featureId)]
             ELSE (id :> <<featureId>>) @@ featureIdMap
    ELSE featureIdMap

\* for (const id of propertyId), from the i-th element on
RECURSIVE FannedOut(_, _, _, _)
FannedOut(propertyId, i, featureIdMap, featureId) ==
    IF i > Len(propertyId) THEN featureIdMap
    ELSE FannedOut(propertyId, i + 1,
                   updateFeatureIdMapEntry(propertyId[i].s, featureIdMap,
                                           featureId),
                   featureId)

\* centrelines are left out of the indices of a map of another style
CentrelineExcluded(annotation) ==
    /\ style # "centreline"
    /\ "centreline" \in DOMAIN annotation
    /\ Truthy(annotation["centreline"])

\* a faulty updateFeatureIdMap, missingId never used
updateFeatureIdMapNoMissingId(property, featureIdMap, annotation, missingId) ==
    IF CentrelineExcluded(annotation) THEN featureIdMap
    ELSE IF property \in DOMAIN annotation /\ HasLength(annotation[property])
    THEN IF IsArray(annotation[property])
         THEN FannedOut(annotation[property].a, 1, featureIdMap,
                        annotation["featureId"].n)
         ELSE updateFeatureIdMapEntry(annotation[property].s, featureIdMap,
                                      annotation["featureId"].n)
    ELSE featureIdMap

updateFeatureIdMap(property, featureIdMap, annotation, missingId) ==
    IF CentrelineExcluded(annotation) THEN featureIdMap
    ELSE IF property \in DOMAIN annotation /\ HasLength(annotation[property])
    THEN IF IsArray(annotation[property])
         THEN FannedOut(annotation[property].a, 1, featureIdMap,
                        annotation["featureId"].n)
         ELSE updateFeatureIdMapEntry(annotation[property].s, featureIdMap,
                                      annotation["featureId"].n)
    ELSE IF /\ missingId # Null
            /\ "models" \in DOMAIN annotation
            /\ StartsWithPathPrefix(annotation["models"])
    THEN updateFeatureIdMapEntry(missingId.s, featureIdMap,
                                 annotation["featureId"].n)
    ELSE featureIdMap

\* `${v}`
Stringified(v) ==
    CASE v.t = "str" -> v.s
      [] v.t = "bool" -> IF v.b THEN "true" ELSE "false"
      [] OTHER -> "[object Object]"

\* the strings a value adds to the set of its property
ValueStrings(value) ==
    IF IsArray(value)
    THEN {Stringified(value.a[i]) : i \in 1..Len(value.a)}
    ELSE {Stringified(value)}

\* #featurePropertyValues after the loop over Object.entries(ann)
PropertyValuesNoted(ann) ==
    LET noted == DOMAIN ann \ EXCLUDED_FEATURE_FILTER_PROPERTIES
    IN  [key \in DOMAIN featurePropertyValues \cup noted |->
            (IF key \in DOMAIN featurePropertyValues
             THEN featurePropertyValues[key] ELSE {})
                \cup (IF key \in noted THEN ValueStrings(ann[key]) ELSE {})]

\* ann.lineString and ann.lineLength, computed for the centrelines of a
\* centreline map
WithLineString(ann) ==
    IF /\ style = "centreline"
       /\ "centreline" \in DOMAIN ann
       /\ Truthy(ann["centreline"])
    THEN [k \in DOMAIN ann \cup {"lineString", "lineLength"} |->
             IF k = "lineString" THEN Str("turf.lineString")
             ELSE IF k = "lineLength" THEN Str("turfLength.length")
             ELSE ann[k]]
    ELSE ann

\* the annotations of a map description: taxons is a list
TaxonAnnotations ==
    {[models |-> Str("ilxtr:some-path")],
     [models |-> Str("ilxtr:some-path"), centreline |-> Bool(TRUE)],
     [models |-> Str("ilxtr:some-path"),
      taxons |-> Arr(<<Str("NCBITaxon:9606")>>)],
     [models |-> Str("ilxtr:some-path"), taxons |-> Arr(<<>>)],
     [models |-> Str("UBERON:1"), source |-> Str("d1")],
     [models |-> Str("UBERON:1"), dataset |-> Str("d1"),
      taxons |-> Arr(<<Str("NCBITaxon:9606"), Str("NCBITaxon:9606")>>)]}

saveAnnotation(annotation) ==
    /\ Len(idToAnnotation) < MaxAnnotations
    /\ LET ann == Stamped(annotation, NextFeatureId)
       IN  /\ idToAnnotation' = Append(idToAnnotation, WithLineString(ann))
           /\ datasetToFeatureIds' =
                  updateFeatureIdMap("dataset", datasetToFeatureIds, ann, Null)
           /\ modelToFeatureIds' =
                  updateFeatureIdMap("models", modelToFeatureIds, ann, Null)
           /\ sourceToFeatureIds' =
                  updateFeatureIdMap("source", sourceToFeatureIds, ann, Null)
           /\ taxonToFeatureIds' =
                  updateFeatureIdMap("taxons", taxonToFeatureIds, ann,
                                     Str(UNCLASSIFIED_TAXON_ID))
           /\ featurePropertyValues' = PropertyValuesNoted(ann)
    /\ op' = "saveAnnotation"
    /\ NoLookup
    /\ UNCHANGED <<style, userInteractions, filterVars, layerVars,
                   controlVars>>

\* [...new Set(featureIds)], from the i-th element on
RECURSIVE Distinct(_, _)
Distinct(featureIds, i) ==
    IF i > Len(featureIds) THEN <<>>
    ELSE IF \E j \in 1..(i - 1) : featureIds[j] = featureIds[i]
    THEN Distinct(featureIds, i + 1)
    ELSE <<featureIds[i]>> \o Distinct(featureIds, i + 1)

taxonFeatureIds(taxonId) ==
    /\ op' = "taxonFeatureIds"
    /\ requested' = Str(taxonId)
    /\ resolved' = Distinct(Get(taxonToFeatureIds, NormaliseId(taxonId)), 1)
    /\ pathwayCalls' = 0
    /\ UNCHANGED <<style, idToAnnotation, datasetToFeatureIds,
                   modelToFeatureIds, sourceToFeatureIds, taxonToFeatureIds,
                   featurePropertyValues, userInteractions, filterVars, layerVars,
                   controlVars>>

InitSave ==
    /\ style \in FLATMAP_STYLE
    /\ NoAnnotations
    /\ NoFilters
    /\ NoControls
    /\ Constructed(Bool(TRUE))

NextSave ==
    \/ \E annotation \in TaxonAnnotations : saveAnnotation(annotation)
    \/ \E taxonId \in {UNCLASSIFIED_TAXON_ID, "NCBITaxon:9606"} :
           taxonFeatureIds(taxonId)

SpecSave == InitSave /\ [][NextSave]_vars

\* an annotation whose models starts with the path prefix and that has no
\* taxons field
PathWithoutTaxons(ann) ==
    /\ "models" \in DOMAIN ann
    /\ StartsWithPathPrefix(ann["models"])
    /\ "taxons" \notin DOMAIN ann

LookedUpUnclassified ==
    op = "taxonFeatureIds" /\ requested = Str(UNCLASSIFIED_TAXON_ID)

\* C17, as claimed: the feature id of every saved annotation whose models
\* starts with the path prefix and that has no taxons field is returned by
\* the lookup of the unclassified taxon
C17_PathUnderUnclassifiedTaxon ==
    LookedUpUnclassified
        => \A i \in 1..Len(idToAnnotation) :
               PathWithoutTaxons(idToAnnotation[i])
                   => idToAnnotation[i]["featureId"].n \in Range(resolved)

\* C17, amended: the same, for the annotations that are not centrelines of
\* a map whose style is not the centreline style
C17_PathUnderUnclassifiedTaxonUnlessCentreline ==
    LookedUpUnclassified
        => \A i \in 1..Len(idToAnnotation) :
               (/\ PathWithoutTaxons(idToAnnotation[i])
                /\ ~CentrelineExcluded(idToAnnotation[i]))
                   => idToAnnotation[i]["featureId"].n \in Range(resolved)

C17_Witness ==
    /\ LookedUpUnclassified
    /\ style = "anatomical"
    /\ Len(idToAnnotation) = 2
    /\ PathWithoutTaxons(idToAnnotation[1])
    /\ CentrelineExcluded(idToAnnotation[1])
    /\ PathWithoutTaxons(idToAnnotation[2])
    /\ ~CentrelineExcluded(idToAnnotation[2])
    /\ resolved = <<2>>

-----------------------------------------------------------------------------
(* LayerManager (layers/flightpaths.ts): the facets and the visibility     *)
(* filter, combined and handed to the style layers and the flight paths.   *)

FacetIds == {"a", "b"}

\* facet.facet.enabledStates: the values of kind that are switched on
EnabledStates == {<<>>, <<1>>, <<2>>, <<1, 2>>}

\* facet.makeFilter().filter, for a facet that restricts kind to the values
\* switched on
MakeFilter(enabledStates) ==
    Obj1("kind", Arr([i \in 1..Len(enabledStates) |-> Num(enabledStates[i])]))

\* the place of a key among the keys of #filterMap, 0 if it is not one
RECURSIVE Position(_, _, _)
Position(map, id, i) ==
    IF i > Len(map) THEN 0
    ELSE IF map[i].id = id THEN i
    ELSE Position(map, id, i + 1)

MapHas(map, id) == Position(map, id, 1) > 0

\* Map.set: a key already there keeps its place
MapSet(map, id, f) ==
    IF MapHas(map, id)
    THEN [map EXCEPT ![Position(map, id, 1)] = [id |-> id, filter |-> f]]
    ELSE Append(map, [id |-> id, filter |-> f])

\* Map.delete
MapDelete(map, id) == SelectSeq(map, LAMBDA entry : entry.id # id)

\* [...this.#filterMap.values()].map(f => f.filter)
FilterValues(map) == [i \in 1..Len(map) |-> map[i].filter]

\* a faulty CombinedFilter, the filters joined by OR
CombinedFilterAny(map) == Stored(Or(FilterValues(map)))

\* new PropertiesFilter({'AND': [...]})
CombinedFilter(map) == Stored(And(FilterValues(map)))

\* FlatMapStylingLayer.setVisibilityFilter for one layer: newFilter
NewFilter(styleFilter, visibility) ==
    LET filterIsAll == /\ IsArray(visibility)
                       /\ Len(visibility.a) > 0
                       /\ visibility.a[1] = Str("all")
    IN  IF styleFilter # Null
        THEN IF styleFilter.a[1] = Str("all")
             THEN IF filterIsAll
                  THEN Arr(styleFilter.a \o Tail(visibility.a))
                  ELSE Arr(styleFilter.a \o <<visibility>>)
             ELSE IF filterIsAll
             THEN Arr(visibility.a \o <<styleFilter>>)
             ELSE Arr(<<visibility, styleFilter>>)
        ELSE visibility

\* a faulty ClearedFilter, the layer left with the filter it has
ClearedFilterKept(layer) == mapFilter[layer]

\* FlatMapStylingLayer.clearVisibilityFilter for one layer
ClearedFilter(layer) == DefaultFilter(layer)

\* FlatMapStylingLayer.setVisibilityFilter(filter)
stylingSetVisibilityFilter(visibility) ==
    /\ mapFilter' =
           [layer \in VectorStyleLayers |->
               LET newFilter == NewFilter(DefaultFilter(layer), visibility)
               IN  IF Truthy(newFilter) THEN newFilter ELSE mapFilter[layer]]
    /\ visibilityFilter' = visibility

\* FlatMapStylingLayer.clearVisibilityFilter()
stylingClearVisibilityFilter ==
    /\ mapFilter' = [layer \in VectorStyleLayers |-> ClearedFilter(layer)]
    /\ visibilityFilter' = Null

\* a faulty Rebuilt, the layers left with the data they have
RebuiltNever(visibility) == layerProperties

\* #layerProperties after FlightPathLayer.setVisibilityFilter(featureFilter)
Rebuilt(visibility) ==
    IF enabled THEN NewLayerProperties(visibility) ELSE layerProperties

\* FlightPathLayer.setVisibilityFilter(featureFilter)
flightSetVisibilityFilter(visibility) ==
    /\ featureFilter' = visibility
    /\ layerProperties' = Rebuilt(visibility)

\* FlightPathLayer.clearVisibilityFilter()
flightClearVisibilityFilter == flightSetVisibilityFilter(Stored(Bool(TRUE)))

\* #updatedFilters(), for the #filterMap the call has left
updatedFilters(map) ==
    IF Len(map) > 0
    THEN LET propertiesFilter == CombinedFilter(map)
             styleFilter == MakeStyleFilter(propertiesFilter)
         IN  IF styleFilter = Thrown
             THEN UNCHANGED <<mapFilter, featureFilter, visibilityFilter,
                              layerProperties>>
             ELSE /\ stylingSetVisibilityFilter(styleFilter)
                  /\ flightSetVisibilityFilter(propertiesFilter)
    ELSE /\ stylingClearVisibilityFilter
         /\ flightClearVisibilityFilter

addFilteredFacet(id, enabledStates) ==
    /\ facetMap' = (id :> enabledStates) @@ facetMap
    /\ filterMap' = MapSet(filterMap, id, MakeFilter(enabledStates))
    /\ updatedFilters(filterMap')
    /\ op' = "addFilteredFacet"
    /\ facetId' = id
    /\ UNCHANGED enabled
    /\ UNCHANGED <<filterVars, flatmapVars,
                 controlVars>>

removeFilteredFacet(id) ==
    /\ IF id \in DOMAIN facetMap
       THEN /\ facetMap' = [k \in DOMAIN facetMap \ {id} |-> facetMap[k]]
            /\ filterMap' = MapDelete(filterMap, id)
            /\ updatedFilters(filterMap')
       ELSE UNCHANGED <<facetMap, filterMap, mapFilter, featureFilter,
                        visibilityFilter, layerProperties>>
    /\ op' = "removeFilteredFacet"
    /\ facetId' = id
    /\ UNCHANGED enabled
    /\ UNCHANGED <<filterVars, flatmapVars,
                 controlVars>>

\* a faulty Refreshed, no filter made again
RefreshedNone(map) == map

\* a faulty Refreshed, every filter made again put beside the one held
RefreshedAppended(map) ==
    map \o [i \in 1..Len(map) |->
                IF map[i].id \in DOMAIN facetMap
                THEN [id |-> map[i].id,
                      filter |-> MakeFilter(facetMap[map[i].id])]
                ELSE map[i]]

\* #filterMap after the loop of refresh() over the facets
Refreshed(map) ==
    [i \in 1..Len(map) |->
        IF map[i].id \in DOMAIN facetMap
        THEN [id |-> map[i].id, filter |-> MakeFilter(facetMap[map[i].id])]
        ELSE map[i]]

refresh ==
    /\ filterMap' = Refreshed(filterMap)
    /\ updatedFilters(filterMap')
    /\ op' = "refresh"
    /\ facetId' = ""
    /\ UNCHANGED <<facetMap, enabled, filterVars, flatmapVars,
                 controlVars>>

clearVisibilityFilter ==
    /\ filterMap' = MapDelete(filterMap, "")
    /\ updatedFilters(filterMap')
    /\ op' = "clearVisibilityFilter"
    /\ facetId' = ""
    /\ UNCHANGED <<facetMap, enabled, filterVars, flatmapVars,
                 controlVars>>

setVisibilityFilter(propertiesFilter) ==
    /\ filterMap' = MapSet(filterMap, "", propertiesFilter)
    /\ updatedFilters(filterMap')
    /\ op' = "setVisibilityFilter"
    /\ facetId' = ""
    /\ UNCHANGED <<facetMap, enabled, filterVars, flatmapVars,
                 controlVars>>

\* a toggle of a registered facet is switched: the facet changes, nothing
\* of the LayerManager is called
setEnabledStates(id, enabledStates) ==
    /\ id \in DOMAIN facetMap
    /\ enabledStates # facetMap[id]
    /\ facetMap' = [facetMap EXCEPT ![id] = enabledStates]
    /\ op' = "setEnabledStates"
    /\ facetId' = id
    /\ UNCHANGED <<filterMap, mapFilter, featureFilter, visibilityFilter,
                   flightVars, filterVars,
                   flatmapVars, controlVars>>

VisibilityFilters == {Has("taxons"), Obj1("kind", Num(1))}

InitLayers ==
    NoFlatMap /\ NoFilters /\ NoControls /\ Constructed(Bool(TRUE))

NextLayers ==
    \/ \E id \in FacetIds, enabledStates \in EnabledStates :
           addFilteredFacet(id, enabledStates)
    \/ \E id \in FacetIds : removeFilteredFacet(id)
    \/ refresh
    \/ clearVisibilityFilter
    \/ \E f \in VisibilityFilters : setVisibilityFilter(f)
    \/ \E id \in FacetIds, enabledStates \in EnabledStates :
           setEnabledStates(id, enabledStates)

SpecLayers == InitLayers /\ [][NextLayers]_vars

\* the filter #filterMap holds for a key
FilterOf(map, id) == map[Position(map, id, 1)].filter

\* the values a filter {kind: [...]} restricts kind to
KindValues(f) == {f.e[1].x.a[i] : i \in 1..Len(f.e[1].x.a)}

Matches(props, f) == Match(props, f) = Bool(TRUE)

\* C18: with two facets registered whose filters restrict kind to disjoint
\* sets of values, the filter handed to the flight paths matches no
\* dictionary whose kind satisfies only one of the two
C18_DisjointFacetsMatchNothing ==
    (/\ MapHas(filterMap, "a")
     /\ MapHas(filterMap, "b")
     /\ KindValues(FilterOf(filterMap, "a"))
            \cap KindValues(FilterOf(filterMap, "b")) = {})
        => \A props \in Props :
               (/\ "kind" \in DOMAIN props
                /\ Matches(props, FilterOf(filterMap, "a"))
                       # Matches(props, FilterOf(filterMap, "b")))
                   => Match(props, featureFilter) = Bool(FALSE)

C18_Witness ==
    /\ op = "addFilteredFacet"
    /\ facetId = "b"
    /\ filterMap = <<[id |-> "a", filter |-> MakeFilter(<<1>>)],
                     [id |-> "b", filter |-> MakeFilter(<<2>>)]>>
    /\ featureFilter = And(<<MakeFilter(<<1>>), MakeFilter(<<2>>)>>)

\* the filters of the registered facets made in their current state, in
\* the order of #filterMap from its i-th key on
RECURSIVE FacetFilters(_)
FacetFilters(i) ==
    IF i > Len(filterMap) THEN <<>>
    ELSE (IF filterMap[i].id \in DOMAIN facetMap
          THEN <<MakeFilter(facetMap[filterMap[i].id])>>
          ELSE <<>>) \o FacetFilters(i + 1)

\* C19, as claimed: right after refresh() the filter pushed is the AND of
\* makeFilter() of every registered facet in its current state
C19_RefreshPushesFacetsOnly ==
    (op = "refresh" /\ DOMAIN facetMap # {})
        => featureFilter = And(FacetFilters(1))

\* the filter pushed is the AND of what #filterMap holds
PushedFromFilterMap ==
    IF Len(filterMap) = 0 THEN featureFilter = Bool(TRUE)
    ELSE /\ featureFilter = And(FilterValues(filterMap))
         /\ \A layer \in VectorStyleLayers :
                mapFilter[layer]
                    = NewFilter(DefaultFilter(layer),
                                MakeStyleFilter(featureFilter))

\* what #filterMap holds for a facet changes only in refresh() and when the
\* facet is registered again
KeptUntilRefresh ==
    \A id \in FacetIds :
        (/\ MapHas(filterMap, id)
         /\ MapHas(filterMap', id)
         /\ op' # "refresh"
         /\ ~(op' = "addFilteredFacet" /\ facetId' = id))
            => FilterOf(filterMap', id) = FilterOf(filterMap, id)

\* right after refresh() #filterMap holds every facet's makeFilter() in
\* the facet's current state, beside the visibility filter if one is set
FreshAfterRefresh ==
    op = "refresh"
        => \A i \in 1..Len(filterMap) :
               filterMap[i].id \in DOMAIN facetMap
                   => filterMap[i].filter = MakeFilter(facetMap[filterMap[i].id])

\* C19, amended: the filter pushed is the AND of what was made for each
\* facet at its registration or at the last refresh(), and of the visibility
\* filter if one is set; a toggle, and the registration or removal of
\* another facet, leave what was made for a facet as it is; right after
\* refresh() it is makeFilter() of the facet's current state
C19_StaleUntilRefresh ==
    /\ []PushedFromFilterMap
    /\ [][KeptUntilRefresh]_vars
    /\ []FreshAfterRefresh

C19_Witness ==
    /\ op = "addFilteredFacet"
    /\ facetId = "b"
    /\ MapHas(filterMap, "a")
    /\ MapHas(filterMap, "")
    /\ facetMap["a"] = <<2>>
    /\ FilterOf(filterMap, "a") = MakeFilter(<<1>>)
    /\ featureFilter = And(FilterValues(filterMap))

\* C20: when a removeFilteredFacet or clearVisibilityFilter call leaves no
\* filter contributor, every vector style layer has the default filter of
\* its style and the flight paths' filter matches every dictionary
C20_NoContributorClears ==
    (/\ op \in {"removeFilteredFacet", "clearVisibilityFilter"}
     /\ Len(filterMap) = 0)
        => /\ \A layer \in VectorStyleLayers :
                  mapFilter[layer] = DefaultFilter(layer)
           /\ featureFilter = Bool(TRUE)
           /\ \A props \in Props : Matches(props, featureFilter)

C20_Witness ==
    /\ op = "clearVisibilityFilter"
    /\ filterMap = <<>>
    /\ facetMap = <<>>
    /\ mapFilter["body"] = DefaultFilter("body")
    /\ featureFilter = Bool(TRUE)

\* C23: with one filter in #filterMap, of the one facet or of
\* setVisibilityFilter(), the filter handed to the flight paths matches a
\* dictionary exactly when that filter matches it
C23_SingleContributorMatches ==
    Len(filterMap) = 1
        => \A props \in Props :
               Match(props, featureFilter)
                   = Match(props, filterMap[1].filter)

\* C21: a refresh() that follows a refresh(), with no facet changed in
\* between, leaves the filter of every vector style layer, the filter of
\* the flight paths and what #filterMap holds as the first call left them
C21_RefreshIdempotent ==
    [][(op = "refresh" /\ op' = "refresh")
           => UNCHANGED <<mapFilter, featureFilter, filterMap>>]_vars

C21_Witness ==
    /\ op = "refresh"
    /\ Len(filterMap) = 3
    /\ facetMap["a"] = <<1>>
    /\ FilterOf(filterMap, "a") = MakeFilter(<<1>>)
    /\ featureFilter = And(FilterValues(filterMap))
    /\ mapFilter["body"]
           = NewFilter(DefaultFilter("body"), MakeStyleFilter(featureFilter))

-----------------------------------------------------------------------------
(* UserInteractions (interactions.js): hiding and showing path features.   *)

MaxPaths == 7   \* path features of the map

\* this._pathways.allFeatureIds()
AllFeatureIds == 1..MaxPaths

PathwayTypes == {"cns", "symp"}

\* this._pathways.typeFeatureIds(pathType)
TypeFeatureIds(pathType) ==
    {featureId \in AllFeatureIds :
        featureId % 2 = (IF pathType = "cns" THEN 1 ELSE 0)}

\* this._pathways.pathFeatureIds(nodeId): the paths through a node
PathFeatureIds(nodeId) == {nodeId, (nodeId % MaxPaths) + 1}

\* enablePathFeatures_(enable, featureIds): the features left hidden
Hidden(before, enable, featureIds) ==
    IF enable THEN before \ featureIds ELSE before \cup featureIds

\* enablePathFeatures_(enable, featureIds): _disabledPathFeatures
Disabled(before, enable, featureIds) ==
    IF ~enable /\ featureIds # {} THEN TRUE ELSE before

\* the context menu's show paths / hide paths of a node
enablePaths(enable, nodeId) ==
    /\ userInteractions
    /\ hidden' = Hidden(hidden, enable, PathFeatureIds(nodeId))
    /\ disabledPathFeatures'
           = Disabled(disabledPathFeatures, enable, PathFeatureIds(nodeId))
    /\ op' = "enablePaths"
    /\ UNCHANGED <<filterVars, flatmapVars, layerVars, viewerVars, drawVars,
                   detailVars>>

\* FlatMap.togglePaths()
togglePaths ==
    /\ userInteractions
    /\ IF disabledPathFeatures
       THEN /\ hidden' = Hidden(hidden, TRUE, AllFeatureIds)
            /\ disabledPathFeatures' = FALSE
       ELSE /\ hidden' = Hidden(hidden, FALSE, AllFeatureIds)
            /\ disabledPathFeatures'
                   = Disabled(disabledPathFeatures, FALSE, AllFeatureIds)
    /\ op' = "togglePaths"
    /\ UNCHANGED <<filterVars, flatmapVars, layerVars, viewerVars, drawVars,
                   detailVars>>

\* FlatMap.resetMap(), as far as the paths go
reset ==
    /\ userInteractions
    /\ hidden' = Hidden(hidden, TRUE, AllFeatureIds)
    /\ disabledPathFeatures' = FALSE
    /\ op' = "reset"
    /\ UNCHANGED <<filterVars, flatmapVars, layerVars, viewerVars, drawVars,
                   detailVars>>

\* the features of the path types given
TypesFeatureIds(pathTypes) ==
    UNION {TypeFeatureIds(pathType) : pathType \in pathTypes}

\* FlatMap.showPaths(pathTypes, enable), pathTypes one type or an array
showPaths(pathTypes, enable) ==
    /\ userInteractions
    /\ hidden' = Hidden(Hidden(hidden, ~enable, AllFeatureIds), enable,
                        TypesFeatureIds(pathTypes))
    /\ disabledPathFeatures' = TRUE
    /\ op' = "showPaths"
    /\ UNCHANGED <<filterVars, flatmapVars, layerVars, viewerVars, drawVars,
                   detailVars>>

InitPaths ==
    NoFlatMap /\ NoFilters /\ NoControls /\ Constructed(Bool(TRUE))

NextPaths ==
    \/ setupUserInteractions
    \/ \E enable \in BOOLEAN, nodeId \in AllFeatureIds :
           enablePaths(enable, nodeId)
    \/ togglePaths
    \/ reset
    \/ \E pathTypes \in SUBSET PathwayTypes, enable \in BOOLEAN :
           showPaths(pathTypes, enable)

SpecPaths == InitPaths /\ [][NextPaths]_vars

\* C22: a togglePaths() call made while a path feature is hidden leaves
\* every path feature visible, and one made while every path feature is
\* visible leaves every path feature hidden
C22_ToggleShowsOrHidesAll ==
    [][op' = "togglePaths"
           => hidden' = (IF hidden # {} THEN {} ELSE AllFeatureIds)]_vars

\* a path feature is hidden only while _disabledPathFeatures is set
HiddenIsFlagged == hidden # {} => disabledPathFeatures

-----------------------------------------------------------------------------
(* MapViewer (viewer.ts): allMaps() and loadMap() calls, each suspended at *)
(* an await for the server, taking their steps in any order.               *)

MaxFlatMaps == 3   \* FlatMap objects created
MaxFetches == 2    \* resolved fetches of the server's map list counted

\* options.panes: one pane, or several
Panes == {1, 2}

\* what #mapServer.flatMaps() resolves to: the uuids of the server's maps
ServerMaps == <<"u1", "u2">>

\* #lookupMap(identifier) !== null, for a uuid
Listed(maps, uuid) == \E i \in 1..Len(maps) : maps[i] = uuid

\* a faulty MutexFree, dispatch() not waiting for the call inside
MutexFreeAlways == TRUE

\* utils.Mutex: dispatch() runs its function when no other is inside
MutexFree == mutex = 0

Moved(c, pc) == [call EXCEPT ![c].pc = pc]

\* allMaps() or loadMap(uuid) is called: it awaits #ensureInitialised();
\* the call is the first of Calls that is not under way
startCall(c, kind, uuid) ==
    /\ call[c].pc = "idle"
    /\ \A d \in 1..(c - 1) : call[d].pc # "idle"
    /\ call' = [call EXCEPT ![c] = [NoCall EXCEPT !.pc = "waiting",
                                                  !.kind = kind,
                                                  !.uuid = uuid]]
    /\ op' = kind
    /\ UNCHANGED <<panes, initialised, mapList, fetches, mutex, mapNumber,
                   mapsByPane, flatmaps, mapsRead, returned>>
    /\ UNCHANGED <<filterVars, flatmapVars, layerVars, pathVars, drawVars,
                   detailVars>>

\* #ensureInitialised() has returned and the call goes on: allMaps()
\* returns the maps of #mapList, loadMap() looks its map up in #mapList,
\* throws when it is not there and awaits the map's index when it is
readMapList(c) ==
    /\ mapsRead' = [list |-> mapList', sure |-> initialised',
                    by |-> call[c].kind]
    /\ call' = IF call[c].kind = "loadMap" /\ Listed(mapList', call[c].uuid)
               THEN Moved(c, "mapIndex")
               ELSE [call EXCEPT ![c] = NoCall]
    /\ returned' = 0

\* the function given to dispatch() starts: nothing to do when the viewer
\* is initialised, otherwise the list is emptied and the fetch awaited
enterInitialise(c) ==
    /\ call[c].pc = "waiting"
    /\ MutexFree
    /\ IF initialised
       THEN /\ UNCHANGED <<initialised, mapList, mutex>>
            /\ readMapList(c)
       ELSE /\ call' = Moved(c, "fetching")
            /\ mapList' = <<>>
            /\ mutex' = c
            /\ UNCHANGED <<initialised, mapsRead, returned>>
    /\ op' = "ensureInitialised"
    /\ UNCHANGED <<panes, fetches, mapNumber, mapsByPane, flatmaps>>
    /\ UNCHANGED <<filterVars, flatmapVars, layerVars, pathVars, drawVars,
                   detailVars>>

\* #mapServer.flatMaps() settles: resolved, the maps are pushed and the
\* term graph awaited; rejected, the function returns after the alert
fetchedMaps(c, fulfilled) ==
    /\ call[c].pc = "fetching"
    /\ IF fulfilled
       THEN /\ fetches < MaxFetches
            /\ fetches' = fetches + 1
            /\ mapList' = mapList \o ServerMaps
            /\ call' = Moved(c, "termGraph")
            /\ UNCHANGED <<initialised, mutex, mapsRead, returned>>
       ELSE /\ mutex' = IF mutex = c THEN 0 ELSE mutex
            /\ UNCHANGED <<initialised, fetches, mapList>>
            /\ readMapList(c)
    /\ op' = IF fulfilled THEN "flatMaps" ELSE "alert"
    /\ UNCHANGED <<panes, mapNumber, mapsByPane, flatmaps>>
    /\ UNCHANGED <<filterVars, flatmapVars, layerVars, pathVars, drawVars,
                   detailVars>>

\* #sparcTermGraph.load() resolves: this.#initialised = true
loadedTermGraph(c) ==
    /\ call[c].pc = "termGraph"
    /\ initialised' = TRUE
    /\ mutex' = IF mutex = c THEN 0 ELSE mutex
    /\ UNCHANGED mapList
    /\ readMapList(c)
    /\ op' = "initialised"
    /\ UNCHANGED <<panes, fetches, mapNumber, mapsByPane, flatmaps>>
    /\ UNCHANGED <<filterVars, flatmapVars, layerVars, pathVars, drawVars,
                   detailVars>>

\* the map numbers whose flatmap has the uuid
PanesOf(uuid) == {n \in DOMAIN mapsByPane : mapsByPane[n].uuid = uuid}

\* the flatmap of the first entry of #mapsByPane with the uuid
OpenMap(uuid) ==
    mapsByPane[CHOOSE n \in PanesOf(uuid) :
                   \A m \in PanesOf(uuid) : n <= m].flatmap

\* #mapServer.mapIndex() resolves: an open map is returned, for any other
\* the layers, style, pathways, annotations and metadata are awaited
openOrLoad(c) ==
    /\ call[c].pc = "mapIndex"
    /\ IF PanesOf(call[c].uuid) # {}
       THEN /\ call' = [call EXCEPT ![c] = NoCall]
            /\ returned' = OpenMap(call[c].uuid)
       ELSE /\ call' = Moved(c, "loading")
            /\ UNCHANGED returned
    /\ op' = "mapIndex"
    /\ UNCHANGED <<panes, initialised, mapList, fetches, mutex, mapNumber,
                   mapsByPane, flatmaps, mapsRead>>
    /\ UNCHANGED <<filterVars, flatmapVars, layerVars, pathVars, drawVars,
                   detailVars>>

\* #mapNumber once the container of the new map is chosen
NextMapNumber ==
    IF panes <= 1 \/ Cardinality(DOMAIN mapsByPane) >= panes
    THEN mapNumber
    ELSE mapNumber + 1

\* the map's resources have arrived: the pane is chosen, the FlatMap is
\* created and flatmap.mapLoaded() awaited
createFlatMap(c) ==
    /\ call[c].pc = "loading"
    /\ flatmaps < MaxFlatMaps
    /\ mapNumber' = NextMapNumber
    /\ flatmaps' = flatmaps + 1
    /\ call' = [call EXCEPT ![c].pc = "created", ![c].flatmap = flatmaps']
    /\ op' = "createFlatMap"
    /\ UNCHANGED <<panes, initialised, mapList, fetches, mutex, mapsByPane,
                   mapsRead, returned>>
    /\ UNCHANGED <<filterVars, flatmapVars, layerVars, pathVars, drawVars,
                   detailVars>>

\* flatmap.mapLoaded() resolves: this.#mapsByPane.set(this.#mapNumber,
\* flatmap) and the flatmap is returned
mapLoaded(c) ==
    /\ call[c].pc = "created"
    /\ mapsByPane' = (mapNumber :> [uuid |-> call[c].uuid,
                                     flatmap |-> call[c].flatmap])
                          @@ mapsByPane
    /\ returned' = call[c].flatmap
    /\ call' = [call EXCEPT ![c] = NoCall]
    /\ op' = "mapLoaded"
    /\ UNCHANGED <<panes, initialised, mapList, fetches, mutex, mapNumber,
                   flatmaps, mapsRead>>
    /\ UNCHANGED <<filterVars, flatmapVars, layerVars, pathVars, drawVars,
                   detailVars>>

InitViewer ==
    /\ NoFlatMap /\ NoFilters /\ NoPaths /\ NoDrawing /\ NoDetails
    /\ Constructed(Bool(TRUE))
    /\ panes \in Panes
    /\ NoMaps

NextViewer ==
    \/ \E c \in Calls : startCall(c, "allMaps", "")
    \/ \E c \in Calls, i \in 1..Len(ServerMaps) :
           startCall(c, "loadMap", ServerMaps[i])
    \/ \E c \in Calls : enterInitialise(c)
    \/ \E c \in Calls, fulfilled \in BOOLEAN : fetchedMaps(c, fulfilled)
    \/ \E c \in Calls : loadedTermGraph(c)
    \/ \E c \in Calls : openOrLoad(c)
    \/ \E c \in Calls : createFlatMap(c)
    \/ \E c \in Calls : mapLoaded(c)

SpecViewer == InitViewer /\ [][NextViewer]_vars

\* no two map numbers of #mapsByPane hold flatmaps with the same uuid
NoMapOpenTwice ==
    \A m, n \in DOMAIN mapsByPane :
        mapsByPane[m].uuid = mapsByPane[n].uuid => m = n

\* a loadMap() that returns a flatmap while its map is open in a pane
\* returns the flatmap of that pane
OpenMapReturned ==
    \A c \in Calls :
        (/\ op' \in {"mapIndex", "mapLoaded"}
         /\ call[c].pc # "idle"
         /\ call'[c].pc = "idle"
         /\ PanesOf(call[c].uuid) # {})
            => \E n \in PanesOf(call[c].uuid) :
                   mapsByPane[n].flatmap = returned'

\* C24: whatever the order of the steps of loadMap() calls, no two panes
\* hold flatmaps with the same uuid, and a loadMap() for a map that is
\* open in a pane returns the flatmap of that pane
C24_OpenMapNotOpenedAgain == []NoMapOpenTwice /\ [][OpenMapReturned]_vars

-----------------------------------------------------------------------------
(* AnnotationDrawControl: the events of drawn features sent to the         *)
(* annotator, and the annotator's answers.                                 *)

\* the features of one draw event, at most
MaxSelected == 2

\* event.features of a draw.delete or draw.update event: features each of
\* type 'Feature', no feature twice
Selections ==
    {fs \in UNION {[1..n -> FeatureIds] : n \in 1..MaxSelected} :
        \A i, j \in 1..Len(fs) : fs[i] = fs[j] => i = j}

\* the features are in the control
Selected(fs) == \A i \in 1..Len(fs) : fs[i] \in draw

\* #cleanFeature(event): the first of the event's features, 0 for null
CleanFeature(fs) == IF Len(fs) > 0 THEN fs[1] ELSE 0

\* a faulty Uncommitted, no event held back
UncommittedNever(featureId) == FALSE

\* this.__uncommittedFeatureIds.has(feature.id)
Uncommitted(featureId) == featureId \in uncommittedFeatureIds

\* #sendEvent(type, feature) for a feature with an id; the annotator has
\* the event from then on
sendEvent(type, featureId) ==
    /\ uncommittedFeatureIds' = uncommittedFeatureIds \cup {featureId}
    /\ outstanding' = [outstanding EXCEPT ![featureId] = type]
    /\ sent' = [type |-> type, id |-> featureId, delivered |-> TRUE]

\* the event is ignored
ignoreEvent(type, featureId) ==
    /\ sent' = [type |-> type, id |-> featureId, delivered |-> FALSE]
    /\ UNCHANGED <<uncommittedFeatureIds, outstanding>>

\* draw.create: the user has drawn a feature, which has a new id
createdFeature ==
    /\ features < MaxFeatures
    /\ features' = features + 1
    /\ draw' = draw \cup {features'}
    /\ sendEvent("created", CleanFeature(<<features'>>))
    /\ op' = "createdFeature"
    /\ UNCHANGED <<committedFeatures>>
    /\ UNCHANGED <<filterVars, flatmapVars, layerVars, pathVars, viewerVars,
                   detailVars>>

\* draw.delete: the user has deleted features of the control
deletedFeature(fs) ==
    /\ Selected(fs)
    /\ draw' = draw \ {fs[i] : i \in 1..Len(fs)}
    /\ IF Uncommitted(CleanFeature(fs))
       THEN ignoreEvent("deleted", CleanFeature(fs))
       ELSE sendEvent("deleted", CleanFeature(fs))
    /\ op' = "deletedFeature"
    /\ UNCHANGED <<committedFeatures, features>>
    /\ UNCHANGED <<filterVars, flatmapVars, layerVars, pathVars, viewerVars,
                   detailVars>>

\* draw.update: the user has moved or reshaped features of the control
updatedFeature(fs) ==
    /\ Selected(fs)
    /\ IF Uncommitted(CleanFeature(fs))
       THEN ignoreEvent("updated", CleanFeature(fs))
       ELSE sendEvent("updated", CleanFeature(fs))
    /\ op' = "updatedFeature"
    /\ UNCHANGED <<draw, committedFeatures, features>>
    /\ UNCHANGED <<filterVars, flatmapVars, layerVars, pathVars, viewerVars,
                   detailVars>>

\* the annotator has the event of the feature and has not answered it
Outstanding(featureId) == outstanding[featureId] # ""

\* commitEvent(event), event one the annotator has received
commitEvent(featureId) ==
    /\ Outstanding(featureId)
    /\ committedFeatures' =
           IF outstanding[featureId] = "deleted"
           THEN committedFeatures \ {featureId}
           ELSE committedFeatures \cup {featureId}
    /\ uncommittedFeatureIds' = uncommittedFeatureIds \ {featureId}
    /\ outstanding' = [outstanding EXCEPT ![featureId] = ""]
    /\ sent' = NoEvent
    /\ op' = "commitEvent"
    /\ UNCHANGED <<draw, features>>
    /\ UNCHANGED <<filterVars, flatmapVars, layerVars, pathVars, viewerVars,
                   detailVars>>

\* rollbackEvent(event), event one the annotator has received
rollbackEvent(featureId) ==
    /\ Outstanding(featureId)
    /\ CASE outstanding[featureId] = "created" ->
               /\ draw' = draw \ {featureId}
               /\ committedFeatures' = committedFeatures \ {featureId}
               /\ uncommittedFeatureIds' = uncommittedFeatureIds \ {featureId}
         [] outstanding[featureId] = "deleted" ->
               /\ draw' = draw \cup {featureId}
               /\ committedFeatures' = committedFeatures \cup {featureId}
               /\ uncommittedFeatureIds' = uncommittedFeatureIds \ {featureId}
         [] OTHER ->
               IF featureId \in committedFeatures
               THEN /\ draw' = (draw \ {featureId}) \cup {featureId}
                    /\ uncommittedFeatureIds'
                           = uncommittedFeatureIds \ {featureId}
                    /\ UNCHANGED committedFeatures
               ELSE UNCHANGED <<draw, committedFeatures,
                                uncommittedFeatureIds>>
    /\ outstanding' = [outstanding EXCEPT ![featureId] = ""]
    /\ sent' = NoEvent
    /\ op' = "rollbackEvent"
    /\ UNCHANGED <<features>>
    /\ UNCHANGED <<filterVars, flatmapVars, layerVars, pathVars, viewerVars,
                   detailVars>>

\* addFeature(feature): a stored annotation's geometry, under a new id
addFeature ==
    /\ features < MaxFeatures
    /\ features' = features + 1
    /\ draw' = draw \cup {features'}
    /\ committedFeatures' = committedFeatures \cup {features'}
    /\ uncommittedFeatureIds' = uncommittedFeatureIds \ {features'}
    /\ sent' = NoEvent
    /\ op' = "addFeature"
    /\ UNCHANGED <<outstanding>>
    /\ UNCHANGED <<filterVars, flatmapVars, layerVars, pathVars, viewerVars,
                   detailVars>>

InitDraw ==
    NoFlatMap /\ NoFilters /\ NoControls /\ Constructed(Bool(TRUE))

NextDraw ==
    \/ createdFeature
    \/ \E fs \in Selections : deletedFeature(fs)
    \/ \E fs \in Selections : updatedFeature(fs)
    \/ \E featureId \in FeatureIds : commitEvent(featureId)
    \/ \E featureId \in FeatureIds : rollbackEvent(featureId)
    \/ addFeature

SpecDraw == InitDraw /\ [][NextDraw]_vars

-----------------------------------------------------------------------------
(* The layers of a map called directly: FlatMapStylingLayer and            *)
(* FlightPathLayer.                                                        *)

\* the style filters a caller hands to FlatMapStylingLayer
StyleFilters ==
    {MakeStyleFilter(Stored(f)) :
        f \in {Bool(TRUE), Bool(FALSE), Has("taxons"), Obj1("kind", Num(1)),
               Obj1("taxons", Arr(<<Num(1), Num(2)>>)),
               Not(Obj1("kind", Num(2))), Not(Has("kind")),
               And(<<Obj1("kind", Num(1)), Has("taxons")>>),
               Or(<<Obj1("kind", Num(1)), Obj1("taxons", Num(2))>>),
               And(<<Or(<<Obj1("kind", Num(1)), Has("taxons")>>),
                     Not(Obj1("taxons", Num(1)))>>)}}

\* the feature filters a caller hands to FlightPathLayer
FeatureFilters ==
    {Stored(f) :
        f \in {Bool(TRUE), Bool(FALSE), Obj1("kind", Num(1)),
               Obj1("kind", Arr(<<Num(2), Num(3)>>)), Has("taxons"),
               Not(Obj1("taxons", Num(1))),
               And(<<Has("taxons"), Obj1("kind", Num(1))>>)}}

\* FlatMapStylingLayer.setVisibilityFilter(filter)
FlatMapStylingLayer_setVisibilityFilter(visibility) ==
    /\ stylingSetVisibilityFilter(visibility)
    /\ op' = "styling.setVisibilityFilter"
    /\ UNCHANGED <<facetMap, filterMap, facetId, featureFilter, flightVars,
                   filterVars, flatmapVars, controlVars>>

\* FlatMapStylingLayer.clearVisibilityFilter()
FlatMapStylingLayer_clearVisibilityFilter ==
    /\ stylingClearVisibilityFilter
    /\ op' = "styling.clearVisibilityFilter"
    /\ UNCHANGED <<facetMap, filterMap, facetId, featureFilter, flightVars,
                   filterVars, flatmapVars, controlVars>>

\* FlightPathLayer.enable(enable)
FlightPathLayer_enable(enable) ==
    /\ layerProperties' = IF enable # enabled
                          THEN NewLayerProperties(featureFilter)
                          ELSE layerProperties
    /\ enabled' = enable
    /\ op' = "flightPaths.enable"
    /\ UNCHANGED <<facetMap, filterMap, facetId, mapFilter, featureFilter,
                   visibilityFilter, filterVars, flatmapVars, controlVars>>

\* FlightPathLayer.setVisibilityFilter(featureFilter)
FlightPathLayer_setVisibilityFilter(visibility) ==
    /\ flightSetVisibilityFilter(visibility)
    /\ op' = "flightPaths.setVisibilityFilter"
    /\ UNCHANGED <<facetMap, filterMap, facetId, mapFilter, visibilityFilter,
                   enabled, filterVars, flatmapVars, controlVars>>

\* FlightPathLayer.clearVisibilityFilter()
FlightPathLayer_clearVisibilityFilter ==
    /\ flightClearVisibilityFilter
    /\ op' = "flightPaths.clearVisibilityFilter"
    /\ UNCHANGED <<facetMap, filterMap, facetId, mapFilter, visibilityFilter,
                   enabled, filterVars, flatmapVars, controlVars>>

InitMapLayers ==
    NoFlatMap /\ NoFilters /\ NoControls /\ Constructed(Bool(TRUE))

NextMapLayers ==
    \/ \E visibility \in StyleFilters :
           FlatMapStylingLayer_setVisibilityFilter(visibility)
    \/ FlatMapStylingLayer_clearVisibilityFilter
    \/ \E enable \in BOOLEAN : FlightPathLayer_enable(enable)
    \/ \E visibility \in FeatureFilters :
           FlightPathLayer_setVisibilityFilter(visibility)
    \/ FlightPathLayer_clearVisibilityFilter

SpecMapLayers == InitMapLayers /\ [][NextMapLayers]_vars

\* the geometry and the anatomical term of a rendered feature
Geometries ==
    {("$type" :> Str("Polygon")),
     ("$type" :> Str("Polygon")) @@ ("models" :> Str("UBERON:0013702")),
     ("$type" :> Str("LineString"))}

\* the features of the vector tiles a style layer's filter is run against
RenderedFeatures == {geometry @@ props : geometry \in Geometries, props \in Props}

\* a filter expression the renderer accepts: a boolean, or an operator
\* followed by its operands
RECURSIVE Expression(_)
Expression(e) ==
    \/ e.t = "bool"
    \/ /\ e.t = "arr"
       /\ Len(e.a) > 0
       /\ CASE e.a[1] \in {Str("all"), Str("any")} ->
                   \A i \in 2..Len(e.a) : Expression(e.a[i])
            [] e.a[1] \in {Str("has"), Str("!has")} ->
                   Len(e.a) = 2 /\ e.a[2].t = "str"
            [] e.a[1] \in {Str("=="), Str("!=")} ->
                   Len(e.a) = 3 /\ e.a[2].t = "str"
            [] e.a[1] = Str("!") -> Len(e.a) = 2 /\ Expression(e.a[2])
            [] OTHER -> FALSE

(* C26: after FlatMapStylingLayer.setVisibilityFilter(F) the filter        *)
(* installed on every vector style layer with a default filter D is a      *)
(* well-formed expression that renders a feature exactly when D and F both *)
(* render it, whether or not D or F starts with 'all'; on a layer without  *)
(* a default filter it is F.                                               *)
C26_DefaultAndVisibility ==
    op = "styling.setVisibilityFilter" =>
        \A layer \in VectorStyleLayers :
            IF DefaultFilter(layer) = Null
            THEN mapFilter[layer] = visibilityFilter
            ELSE /\ Expression(mapFilter[layer])
                 /\ \A feature \in RenderedFeatures :
                        Renders(feature, mapFilter[layer])
                            = (/\ Renders(feature, DefaultFilter(layer))
                               /\ Renders(feature, visibilityFilter))

\* the place of a path type among #pathTypes
TypeIndex(pathType) == CHOOSE i \in DOMAIN PathTypes : PathTypes[i] = pathType

\* the path types whose layer has the feature in its data
LayersOf(featureId) ==
    {PathTypes[i] : i \in {j \in DOMAIN PathTypes : featureId \in layerProperties[j]}}

\* the kind of a path, `other` when it is none of the known types
TypeOf(featureId) ==
    LET kind == PathFeatures[featureId]["kind"]
    IN  IF \E i \in DOMAIN KnownTypes : KnownTypes[i] = kind
        THEN kind ELSE Str("other")

(* C27: with a visibility filter that matches everything, every flight     *)
(* path feature is in the data of exactly one path type's layer: the layer *)
(* of its kind when the kind is a known type, the 'other' layer otherwise. *)
C27_OneLayerPerFeature ==
    (op = "flightPaths.enable" /\ enabled /\ featureFilter = Bool(TRUE)) =>
        \A featureId \in DOMAIN PathFeatures :
            LayersOf(featureId) = {TypeOf(featureId)}

(* C30: in every state in which the flight path layer is enabled, whatever *)
(* the order of enable(), setVisibilityFilter() and                        *)
(* clearVisibilityFilter() before it, the data of each path type's layer   *)
(* is the set of features that match the type's filter and the visibility  *)
(* filter set last.                                                        *)
C30_EnabledDataIsCurrent ==
    enabled =>
        \A i \in DOMAIN PathTypes :
            layerProperties[i] = PathData(PathTypes[i], featureFilter)

\* a filter set while the layer was enabled has taken a feature out of the
\* layer of its kind
C30_Witness ==
    /\ enabled
    /\ op = "flightPaths.setVisibilityFilter"
    /\ featureFilter = Obj1("kind", Arr(<<Num(2), Num(3)>>))
    /\ 1 \notin layerProperties[TypeIndex(Num(1))]
    /\ 2 \in layerProperties[TypeIndex(Num(2))]

-----------------------------------------------------------------------------
(* The detail layers of a map: LayerManager.enableDetailedLayer and        *)
(* zoomEvent.                                                              *)

\* half a zoom level
REVERT_DETAIL_ZOOM_OFFSET == 1

\* the zoom level at which the extent of a layer fits the map's window
FitZoom(layerId) ==
    CASE layerId = "detail-1" -> 3
      [] layerId = "detail-2" -> 5
      [] OTHER -> 1

\* new DetailsFilter(layerId): the id of the facet and its state
DetailsFilterId == "details"
DetailsFilter(layerId) == IF layerId = "detail-1" THEN <<1>> ELSE <<2>>

\* FlatMapStylingLayer.activate(enable) of a layer
Activated(layerId, enable) ==
    IF enable THEN active \cup {layerId} ELSE active \ {layerId}

\* zoomEvent(), the map having been zoomed to a level
zoomEvent(zoomLevel) ==
    /\ zoom' = zoomLevel
    /\ IF currentDetailLayer # "" /\ zoomLevel < revertDetailZoom
       THEN /\ active' = Activated(currentDetailLayer, FALSE)
            /\ IF detailsFilter # ""
               THEN /\ facetMap' = [k \in DOMAIN facetMap \ {DetailsFilterId}
                                       |-> facetMap[k]]
                    /\ filterMap' = MapDelete(filterMap, DetailsFilterId)
                    /\ updatedFilters(filterMap')
                    /\ detailsFilter' = ""
               ELSE UNCHANGED <<facetMap, filterMap, mapFilter, featureFilter,
                                visibilityFilter, layerProperties,
                                detailsFilter>>
            /\ dimmed' = IF baseLayer # "" THEN FALSE ELSE dimmed
            /\ currentDetailLayer' = ""
            /\ revertDetailZoom' = -1
       ELSE UNCHANGED <<facetMap, filterMap, mapFilter, featureFilter,
                        visibilityFilter, layerProperties, active, dimmed,
                        currentDetailLayer, detailsFilter, revertDetailZoom>>
    /\ op' = "zoomEvent"
    /\ UNCHANGED <<facetId, enabled, baseLayer, filterVars, flatmapVars,
                   pathVars, viewerVars, drawVars>>

\* enableDetailedLayer(currentLayerId, layerId)
enableDetailedLayer(currentLayerId, layerId) ==
    /\ baseLayer' = IF baseLayer = "" THEN currentLayerId ELSE baseLayer
    /\ IF layerId \in MapStyleLayers
       THEN /\ dimmed' = TRUE
            /\ detailsFilter' = layerId
            /\ facetMap' = (DetailsFilterId :> DetailsFilter(layerId)) @@ facetMap
            /\ filterMap' =
                   MapSet(IF detailsFilter # ""
                          THEN MapDelete(filterMap, DetailsFilterId)
                          ELSE filterMap,
                          DetailsFilterId, MakeFilter(DetailsFilter(layerId)))
            /\ updatedFilters(filterMap')
            /\ active' = Activated(layerId, TRUE)
            /\ currentDetailLayer' = layerId
            /\ zoom' = FitZoom(layerId)
            /\ revertDetailZoom' = zoom' - REVERT_DETAIL_ZOOM_OFFSET
       ELSE UNCHANGED <<facetMap, filterMap, mapFilter, featureFilter,
                        visibilityFilter, layerProperties, active, dimmed,
                        currentDetailLayer, detailsFilter, revertDetailZoom,
                        zoom>>
    /\ op' = "enableDetailedLayer"
    /\ UNCHANGED <<facetId, enabled, filterVars, flatmapVars, pathVars,
                   viewerVars, drawVars>>

InitDetails ==
    NoFlatMap /\ NoFilters /\ NoControls /\ Constructed(Bool(TRUE))

NextDetails ==
    \/ \E currentLayerId \in MapStyleLayers,
          layerId \in MapStyleLayers \cup {"missing"} :
           enableDetailedLayer(currentLayerId, layerId)
    \/ \E zoomLevel \in ZoomLevels : zoomEvent(zoomLevel)

SpecDetails == InitDetails /\ [][NextDetails]_vars

(* C29: after any sequence of enableDetailedLayer and zoomEvent calls the  *)
(* detail layers that enableDetailedLayer has activated and that are still *)
(* active are none, or the current detail layer alone; enabling a second   *)
(* detail layer does not leave the first one active.                       *)
C29_OneDetailLayerActive ==
    active \cap DetailLayers \in {{}, {currentDetailLayer}}

=============================================================================
